---- MODULE Spec2Model ----
(***************************************************************************)
(* Model of the medication command interpreter of midosis-voice            *)
(* (src/nlp/medication_parser.py) and of its command variation generator   *)
(* (src/nlp/command_variation_generator.py).  Texts are strings; Python's  *)
(* string and regular-expression operations are written out character by   *)
(* character.                                                              *)
(***************************************************************************)
EXTENDS Integers, Sequences, FiniteSets, TLC

VARIABLES
    nlp,        \* TRUE when spacy.load succeeded in MedicationParser.__init__
    pc,         \* position of the running extract_medication_info call
    text,       \* the argument of the call (raw_text)
    text_lower, \* extract_info's local text_lower
    info,       \* the record extract_info is filling in
    result,     \* what extract_medication_info returned
    parser,     \* the tables of the module-level MedicationParser instance
    kept,       \* the text and the record of an earlier call, kept by its caller
    gen_pc,           \* position of the running generate_variations call
    base_command,     \* its argument
    components,       \* its local components
    variation_lists,  \* the slices of its seven variation lists that the loops run over
    template_no,      \* how many templates the outermost loop has done
    variations,       \* its local variations
    variation_count,  \* its local variation_count
    COQUI_AVAILABLE,    \* tts_service.py: the import of TTS.api and torch succeeded
    PYTTSX3_AVAILABLE,  \* tts_service.py: the import of pyttsx3 succeeded
    tts_engines,        \* what the two engines of this system do when they are called
    tts_service,        \* the module-level _tts_service: None or its coqui and pyttsx3 fields
    tts_pc,             \* position of the running TTSService.synthesize call
    tts_text,           \* its argument text
    tts_result,         \* what it returned
    models_pool,        \* WhisperSTTService._models_pool: the loaded sizes, oldest first
    current_model,      \* the size of service.current_model
    default_model,      \* service.default_model
    model_uses,         \* for each size in the pool, the load_model calls it has answered
    switch_result,      \* the status of the last answer of switch_model
    srv_pc,             \* position of the running process_and_schedule call
    transcript,         \* its argument transcript
    medication_info,    \* its local medication_info
    command_type,       \* its local command_type
    now,                \* datetime.now() as _calculate_notification_times reads it
    horas_toma,         \* what _calculate_notification_times returned, or that it raised
    srv_response,       \* what process_and_schedule returned
    reminders_file,     \* audio/reminders.json: whether it exists and the list in it
    store_result,       \* the last call on the reminder store and what it returned
    deleted             \* the (id, user) pairs for which delete_reminder_from_file returned True

\* the variables of extract_medication_info and of generate_variations
intvars == <<nlp, pc, text, text_lower, info, result, parser, kept>>
genvars == <<gen_pc, base_command, components, variation_lists, template_no,
             variations, variation_count>>

\* the variables of the speech services and of the API server
ttsvars == <<COQUI_AVAILABLE, PYTTSX3_AVAILABLE, tts_engines, tts_service, tts_pc,
             tts_text, tts_result>>
poolvars == <<models_pool, current_model, default_model, model_uses, switch_result>>
srvvars == <<srv_pc, transcript, medication_info, command_type, now, horas_toma,
             srv_response>>
storevars == <<reminders_file, store_result, deleted>>
svcvars == <<ttsvars, poolvars, srvvars, storevars>>

vars == <<intvars, genvars, svcvars>>

\* Python's None; no extractor can produce it ("<" is not a word character).
None == "<None>"

-----------------------------------------------------------------------------
(* Strings *)

Min(S) == CHOOSE x \in S : \A y \in S : x <= y

\* s[i] of a 1-based string, "" outside it.
Ch(s, i) == IF i >= 1 /\ i <= Len(s) THEN SubSeq(s, i, i) ELSE ""

\* s.startswith(k, i-1)
HasAt(s, i, k) ==
    /\ i >= 1
    /\ i + Len(k) - 1 <= Len(s)
    /\ SubSeq(s, i, i + Len(k) - 1) = k

\* Python's `k in s` for a non-empty k.
In(k, s) == \E i \in 1..Len(s) : HasAt(s, i, k)

UpperChars == "ABCDEFGHIJKLMNOPQRSTUVWXYZÁÉÍÓÚÑ"
LowerChars == "abcdefghijklmnopqrstuvwxyzáéíóúñ"

LowerCh(c) ==
    IF \E i \in 1..Len(UpperChars) : Ch(UpperChars, i) = c
    THEN Ch(LowerChars, CHOOSE i \in 1..Len(UpperChars) : Ch(UpperChars, i) = c)
    ELSE c

UpperCh(c) ==
    IF \E i \in 1..Len(LowerChars) : Ch(LowerChars, i) = c
    THEN Ch(UpperChars, CHOOSE i \in 1..Len(LowerChars) : Ch(LowerChars, i) = c)
    ELSE c

\* str.lower(), character by character (by halves, to keep the recursion shallow)
RECURSIVE Lower(_)
Lower(s) ==
    IF Len(s) <= 1 THEN LowerCh(s)
    ELSE Lower(SubSeq(s, 1, Len(s) \div 2)) \o Lower(SubSeq(s, (Len(s) \div 2) + 1, Len(s)))

\* str.strip()
RECURSIVE LStrip(_)
LStrip(s) == IF s # "" /\ Ch(s, 1) = " " THEN LStrip(Tail(s)) ELSE s

RECURSIVE RStrip(_)
RStrip(s) ==
    IF s # "" /\ Ch(s, Len(s)) = " " THEN RStrip(SubSeq(s, 1, Len(s) - 1)) ELSE s

Strip(s) == RStrip(LStrip(s))

\* str.capitalize()
Capitalize(s) == IF s = "" THEN "" ELSE UpperCh(Ch(s, 1)) \o Lower(Tail(s))

\* str.replace(" ", "")
RECURSIVE RemoveSpaces(_)
RemoveSpaces(s) ==
    IF s = "" THEN ""
    ELSE (IF Ch(s, 1) = " " THEN "" ELSE Ch(s, 1)) \o RemoveSpaces(Tail(s))

-----------------------------------------------------------------------------
(* Regular-expression pieces.  A position is 1-based; 0 is "no match". *)

DigitChars == {"0", "1", "2", "3", "4", "5", "6", "7", "8", "9"}
\* The characters of the input alphabet that \w does not match.
NonWordChars == {" ", ":", ".", "/", "?", "¿", ","}

IsDigit(c) == c \in DigitChars
IsSpace(c) == c = " "
IsWordCh(c) == c # "" /\ c \notin NonWordChars

CharIs(kind, c) ==
    CASE kind = "d" -> IsDigit(c)
      [] kind = "s" -> IsSpace(c)
      [] kind = "w" -> IsWordCh(c)

\* The position after the longest run of `kind` characters starting at i.
RECURSIVE RunEnd(_, _, _)
RunEnd(kind, s, i) ==
    IF i >= 1 /\ i <= Len(s) /\ CharIs(kind, Ch(s, i)) THEN RunEnd(kind, s, i + 1) ELSE i

\* kind* and kind+ from i: the position after the match, 0 when it fails.
Star(kind, s, i) == IF i = 0 THEN 0 ELSE RunEnd(kind, s, i)
Plus(kind, s, i) == IF i = 0 \/ RunEnd(kind, s, i) = i THEN 0 ELSE RunEnd(kind, s, i)

\* A literal at i.
Lit(s, i, k) == IF i # 0 /\ HasAt(s, i, k) THEN i + Len(k) ELSE 0

\* (a|b|...) at i: the first alternative, in order, that matches; "" when none.
RECURSIVE Alt(_, _, _)
Alt(s, i, alts) ==
    IF i = 0 \/ alts = <<>> THEN ""
    ELSE IF HasAt(s, i, Head(alts)) THEN Head(alts)
    ELSE Alt(s, i, Tail(alts))

\* s[i:j] of positions, "" for a failed match.
Span(s, i, j) == IF i = 0 \/ j = 0 \/ j <= i THEN "" ELSE SubSeq(s, i, j - 1)

\* int(digits)
DigitVal(c) == CHOOSE d \in 0..9 : Ch("0123456789", d + 1) = c
RECURSIVE ToInt(_)
ToInt(s) == IF s = "" THEN 0 ELSE 10 * ToInt(SubSeq(s, 1, Len(s) - 1)) + DigitVal(Ch(s, Len(s)))

\* f"{n:02d}"
Fmt02(n) ==
    IF n < 10 THEN "0" \o Ch("0123456789", n + 1)
    ELSE IF n < 100 THEN Ch("0123456789", (n \div 10) + 1) \o Ch("0123456789", (n % 10) + 1)
    ELSE Ch("0123456789", (n \div 100) + 1) \o Ch("0123456789", ((n \div 10) % 10) + 1)
             \o Ch("0123456789", (n % 10) + 1)

NoMatch == [ok |-> FALSE, g1 |-> "", g2 |-> "", g3 |-> ""]
Match(a, b, c) == [ok |-> TRUE, g1 |-> a, g2 |-> b, g3 |-> c]

\* re.search tries the start positions left to right: the leftmost hit, 0 for none.
Leftmost(hits) == IF hits = {} THEN 0 ELSE Min(hits)

-----------------------------------------------------------------------------
(* MedicationParser.__init__: the tables, in insertion order *)

init_common_medications ==
    << "paracetamol", "ibuprofeno", "omeprazol", "aspirina",
       "amoxicilina", "loratadina", "metformina", "enalapril",
       "atorvastatina", "losartán", "clonazepam", "diazepam",
       "sertralina", "citalopram", "warfarin", "insulina",
       "levotiroxina", "metoprolol", "hidroclorotiazida",
       "simvastatina", "ramipril", "valsartán", "amlodipino",
       "bisoprolol", "prednisona", "dexametasona" >>

init_frequency_map ==
    << <<"diario", "Diario">>,
       <<"todos los días", "Diario">>,
       <<"cada día", "Diario">>,
       <<"una vez al día", "Diario">>,
       <<"cada 8 horas", "Cada 8 horas">>,
       <<"cada ocho horas", "Cada 8 horas">>,
       <<"cada 12 horas", "Cada 12 horas">>,
       <<"cada doce horas", "Cada 12 horas">>,
       <<"dos veces al día", "Cada 12 horas">>,
       <<"semanal", "Semanal">>,
       <<"una vez por semana", "Semanal">>,
       <<"cada semana", "Semanal">>,
       <<"cuando sea necesario", "Cuando sea necesario">>,
       <<"al necesitar", "Cuando sea necesario">> >>

init_action_keywords ==
    << <<"agregar", "add_medication">>,
       <<"añadir", "add_medication">>,
       <<"poner", "add_medication">>,
       <<"programar", "add_medication">>,
       <<"registrar", "add_medication">>,
       <<"eliminar", "delete_medication">>,
       <<"quitar", "delete_medication">>,
       <<"borrar", "delete_medication">>,
       <<"cancelar", "delete_medication">>,
       <<"listar", "list_medications">>,
       <<"mostrar", "list_medications">>,
       <<"ver", "list_medications">>,
       <<"qué", "list_medications">>,
       <<"cuáles", "list_medications">>,
       <<"recordar", "set_reminder">>,
       <<"recordarme", "set_reminder">>,
       <<"avisar", "set_reminder">>,
       <<"alerta", "set_reminder">>,
       <<"tomé", "check_medication">>,
       <<"tomo", "check_medication">>,
       <<"tomar", "check_medication">>,
       <<"consumí", "check_medication">>,
       <<"hoy", "check_today">>,
       <<"mañana", "check_tomorrow">>,
       <<"ayer", "check_yesterday">> >>

\* the attributes of the instance that __init__ built
MedicationParser ==
    [common_medications |-> init_common_medications,
     frequency_map      |-> init_frequency_map,
     action_keywords    |-> init_action_keywords]

\* self.common_medications, self.frequency_map, self.action_keywords
common_medications == parser.common_medications
frequency_map == parser.frequency_map
action_keywords == parser.action_keywords

\* dict lookups on a table of <<key, value>> pairs
HasKey(table, k) == \E n \in 1..Len(table) : table[n][1] = k
Lookup(table, k) == table[CHOOSE n \in 1..Len(table) : table[n][1] = k][2]

\* for key, value in table.items(): if key in text: return value
\* (the value of the first key, in table order, that occurs in the text)
FirstInTable(table, t) ==
    LET hits == {n \in 1..Len(table) : In(table[n][1], t)}
    IN  IF hits = {} THEN None ELSE table[Min(hits)][2]

-----------------------------------------------------------------------------
(* spaCy (es_core_news_sm), as far as the parser reads it *)

\* doc = self.nlp(text): the tokens, in text order; punctuation and spaces
\* separate them.
RECURSIVE Tokens(_)
Tokens(t) ==
    IF t = "" THEN <<>>
    ELSE IF ~IsWordCh(Ch(t, 1)) THEN Tokens(Tail(t))
    ELSE LET e == RunEnd("w", t, 1)
         IN  <<SubSeq(t, 1, e - 1)>> \o Tokens(SubSeq(t, e, Len(t)))

\* token.lemma_: the dictionary form of an inflected word of the vocabulary,
\* the word itself otherwise (an infinitive is its own lemma).
LemmaTable ==
    << <<"agrega", "agregar">>,
       <<"elimina", "eliminar">>,
       <<"medicamentos", "medicamento">>,
       <<"tabletas", "tableta">>,
       <<"horas", "hora">>,
       <<"días", "día">>,
       <<"semanas", "semana">>,
       <<"tengo", "tener">> >>

Lemma(tok) == IF HasKey(LemmaTable, tok) THEN Lookup(LemmaTable, tok) ELSE tok

-----------------------------------------------------------------------------
(* MedicationParser._detect_action *)

\* for token in doc: if token.lemma_ in self.action_keywords: return ...
LemmaAction(t) ==
    LET toks == Tokens(t)
        hits == {n \in 1..Len(toks) : HasKey(action_keywords, Lemma(toks[n]))}
    IN  IF hits = {} THEN None ELSE Lookup(action_keywords, Lemma(toks[Min(hits)]))

detect_action(hasNlp, t) ==
    IF hasNlp /\ LemmaAction(t) # None THEN LemmaAction(t)
    ELSE FirstInTable(action_keywords, t)

-----------------------------------------------------------------------------
(* MedicationParser._extract_medication *)

\* for med in self.common_medications: if med in text: return med.capitalize()
CommonMedication(t) ==
    LET hits == {n \in 1..Len(common_medications) : In(common_medications[n], t)}
    IN  IF hits = {} THEN None ELSE Capitalize(common_medications[Min(hits)])

HasDigit(s) == \E i \in 1..Len(s) : IsDigit(Ch(s, i))

\* What the entity and part-of-speech loops may return: which spans the
\* statistical model labels MISC/ORG/PRODUCT or NOUN is its own business, so
\* every token that passes the code's filters is a possible outcome.
EntityOk(tok) == ~(Len(tok) > 3 /\ HasDigit(tok))
NounOk(tok) == Len(tok) > 3 /\ tok \notin {"medicamento", "pastilla", "tableta", "cápsula"}

NlpMedications(t) ==
    LET toks == Tokens(t)
    IN  {Capitalize(toks[n]) : n \in {k \in 1..Len(toks) : EntityOk(toks[k]) \/ NounOk(toks[k])}}

MedAfterWordAt(word, s, i) ==          \* word\s+(\w+)
    LET b == Plus("s", s, Lit(s, i, word))
        c == Plus("w", s, b)
    IN  IF c = 0 THEN NoMatch ELSE Match(Span(s, b, c), "", "")

MedPastillaAt(s, i) ==                 \* pastilla\s+(?:de\s+)?(\w+)
    LET b == Plus("s", s, Lit(s, i, "pastilla"))
        d == Plus("s", s, Lit(s, b, "de"))
        e == Plus("w", s, d)
        c == Plus("w", s, b)
    IN  IF e # 0 THEN Match(Span(s, d, e), "", "")
        ELSE IF c # 0 THEN Match(Span(s, b, c), "", "")
        ELSE NoMatch

MedBeforeUnitAt(s, i) ==               \* (\w+)\s+(?:mg|g|ml|cápsula|pastilla|comprimido)
    LET e == Plus("w", s, i)
        b == Plus("s", s, e)
    IN  IF Alt(s, b, <<"mg", "g", "ml", "cápsula", "pastilla", "comprimido">>) = ""
        THEN NoMatch ELSE Match(Span(s, i, e), "", "")

MedicationRegex(t) ==
    LET m1 == MedAfterWordAt("medicamento", t,
                  Leftmost({i \in 1..Len(t) : MedAfterWordAt("medicamento", t, i).ok}))
        m2 == MedPastillaAt(t, Leftmost({i \in 1..Len(t) : MedPastillaAt(t, i).ok}))
        m3 == MedAfterWordAt("tomar", t,
                  Leftmost({i \in 1..Len(t) : MedAfterWordAt("tomar", t, i).ok}))
        m4 == MedBeforeUnitAt(t, Leftmost({i \in 1..Len(t) : MedBeforeUnitAt(t, i).ok}))
    IN  IF m1.ok THEN Capitalize(m1.g1)
        ELSE IF m2.ok THEN Capitalize(m2.g1)
        ELSE IF m3.ok THEN Capitalize(m3.g1)
        ELSE IF m4.ok THEN Capitalize(m4.g1)
        ELSE None

\* The values _extract_medication can return for a text.
extract_medication(hasNlp, t) ==
    IF CommonMedication(t) # None THEN {CommonMedication(t)}
    ELSE (IF hasNlp THEN NlpMedications(t) ELSE {}) \cup {MedicationRegex(t)}

-----------------------------------------------------------------------------
(* MedicationParser._extract_dosage *)

MassUnits == <<"mg", "g", "ml", "mcg", "µg", "ui", "iu", "unidades">>
CountUnits == <<"comprimidos", "comprimido", "pastillas", "pastilla", "cápsulas", "cápsula",
                "tabletas", "tableta", "píldoras", "píldora">>

AmountUnitAt(units, s, i) ==           \* (\d+)\s*(unit|unit|...)
    LET e == Plus("d", s, i)
        p == Star("s", s, e)
    IN  IF Alt(s, p, units) = "" THEN NoMatch
        ELSE Match(Span(s, i, e), Alt(s, p, units), "")

DosageDeAt(s, i) ==                    \* (\d+)\s*(mg|g|ml)\s*de\s*\w+
    LET e == Plus("d", s, i)
        p == Star("s", s, e)
        alts == <<"mg", "g", "ml">>
        Rest(q) == Plus("w", s, Star("s", s, Lit(s, Star("s", s, q), "de")))
        good == {n \in 1..Len(alts) : Rest(Lit(s, p, alts[n])) # 0}
    IN  IF good = {} THEN NoMatch ELSE Match(Span(s, i, e), alts[Min(good)], "")

DosisDeAt(s, i) ==                     \* dosis\s+de\s+(\d+)\s*(mg|g|ml)
    LET b == Plus("s", s, Lit(s, Plus("s", s, Lit(s, i, "dosis")), "de"))
    IN  AmountUnitAt(<<"mg", "g", "ml">>, s, b)

extract_dosage(t) ==
    LET m1 == AmountUnitAt(MassUnits, t,
                  Leftmost({i \in 1..Len(t) : AmountUnitAt(MassUnits, t, i).ok}))
        m2 == AmountUnitAt(CountUnits, t,
                  Leftmost({i \in 1..Len(t) : AmountUnitAt(CountUnits, t, i).ok}))
        m3 == DosageDeAt(t, Leftmost({i \in 1..Len(t) : DosageDeAt(t, i).ok}))
        m4 == DosisDeAt(t, Leftmost({i \in 1..Len(t) : DosisDeAt(t, i).ok}))
        m  == IF m1.ok THEN m1 ELSE IF m2.ok THEN m2 ELSE IF m3.ok THEN m3 ELSE m4
    IN  IF ~m.ok THEN None
        ELSE IF m.g2 \in {"comprimidos", "pastillas", "cápsulas", "tabletas", "píldoras"}
             THEN m.g1 \o " " \o m.g2
        ELSE m.g1 \o m.g2

-----------------------------------------------------------------------------
(* MedicationParser._extract_frequency *)

CadaHorasAt(s, i) ==                   \* cada\s+(\d+)\s+horas?
    LET b == Plus("s", s, Lit(s, i, "cada"))
        c == Plus("d", s, b)
        e == Lit(s, Plus("s", s, c), "hora")
    IN  IF e = 0 THEN NoMatch ELSE Match(Span(s, b, c), "", "")

extract_frequency(t) ==
    LET m == CadaHorasAt(t, Leftmost({i \in 1..Len(t) : CadaHorasAt(t, i).ok}))
        hours == ToInt(m.g1)
    IN  IF FirstInTable(frequency_map, t) # None THEN FirstInTable(frequency_map, t)
        ELSE IF In("cada", t) /\ In("hora", t) /\ m.ok /\ hours = 8 THEN "Cada 8 horas"
        ELSE IF In("cada", t) /\ In("hora", t) /\ m.ok /\ hours = 12 THEN "Cada 12 horas"
        ELSE IF In("cada", t) /\ In("hora", t) /\ m.ok /\ (hours = 24 \/ hours = 1) THEN "Diario"
        ELSE "Diario"

-----------------------------------------------------------------------------
(* MedicationParser._extract_time *)

\* \d{n} at i, for n = 1, 2, 4
DigitsN(n, s, i) ==
    IF i # 0 /\ \A k \in 0..(n - 1) : IsDigit(Ch(s, i + k)) THEN i + n ELSE 0

Time24At(s, i) ==                      \* (\d{1,2}):(\d{2}), two hour digits tried first
    LET Try(n) == DigitsN(2, s, Lit(s, DigitsN(n, s, i), ":"))
    IN  IF Try(2) # 0 THEN Match(Span(s, i, i + 2), Span(s, i + 3, i + 5), "")
        ELSE IF Try(1) # 0 THEN Match(Span(s, i, i + 1), Span(s, i + 2, i + 4), "")
        ELSE NoMatch

Periods == <<"am", "pm", "a.m.", "p.m.", "de la mañana", "de la tarde", "de la noche">>

\* (\d{1,2})\s*(?:\.|:)?\s*(\d{2})?\s*(am|pm|...) with the hour taking n digits,
\* the separator and the minutes taken or skipped
TimeAmPmTry(s, i, n, useSep, useMin) ==
    LET a == DigitsN(n, s, i)
        b == Star("s", s, a)
        c == IF ~useSep THEN b ELSE IF b # 0 /\ Ch(s, b) \in {".", ":"} THEN b + 1 ELSE 0
        d == Star("s", s, c)
        e == IF useMin THEN DigitsN(2, s, d) ELSE d
        f == Star("s", s, e)
    IN  IF Alt(s, f, Periods) = "" THEN NoMatch
        ELSE Match(Span(s, i, a), IF useMin THEN Span(s, d, e) ELSE "", Alt(s, f, Periods))

\* the choices of the greedy quantifiers, in the order backtracking tries them
TimeAmPmChoices ==
    << <<2, TRUE, TRUE>>, <<2, TRUE, FALSE>>, <<2, FALSE, TRUE>>, <<2, FALSE, FALSE>>,
       <<1, TRUE, TRUE>>, <<1, TRUE, FALSE>>, <<1, FALSE, TRUE>>, <<1, FALSE, FALSE>> >>

TimeAmPmAt(s, i) ==
    LET Try(k) == TimeAmPmTry(s, i, TimeAmPmChoices[k][1], TimeAmPmChoices[k][2],
                              TimeAmPmChoices[k][3])
        good == {k \in 1..Len(TimeAmPmChoices) : Try(k).ok}
    IN  IF good = {} THEN NoMatch ELSE Try(Min(good))

HoursAt(s, i) ==                       \* (\d{1,2})\s+horas?
    LET Try(n) == Lit(s, Plus("s", s, DigitsN(n, s, i)), "hora")
    IN  IF Try(2) # 0 THEN Match(Span(s, i, i + 2), "", "")
        ELSE IF Try(1) # 0 THEN Match(Span(s, i, i + 1), "", "")
        ELSE NoMatch

time_expressions ==
    << <<"mediodía", "12:00">>,
       <<"medio día", "12:00">>,
       <<"medianoche", "00:00">>,
       <<"media noche", "00:00">>,
       <<"en la mañana", "08:00">>,
       <<"por la mañana", "08:00">>,
       <<"en la tarde", "14:00">>,
       <<"por la tarde", "14:00">>,
       <<"en la noche", "20:00">>,
       <<"por la noche", "20:00">>,
       <<"al despertar", "07:00">>,
       <<"después de desayunar", "08:30">>,
       <<"después de almorzar", "14:00">>,
       <<"después de comer", "14:00">>,
       <<"después de cenar", "20:00">>,
       <<"antes de dormir", "22:00">> >>

\* Convertir a 24h
To24h(hour, period) ==
    IF In("pm", period) \/ In("tarde", period) \/ In("noche", period)
    THEN (IF hour < 12 THEN hour + 12 ELSE hour)
    ELSE IF In("am", period) \/ In("mañana", period)
    THEN (IF hour = 12 THEN 0 ELSE hour)
    ELSE hour

extract_time(t) ==
    LET m1 == Time24At(t, Leftmost({i \in 1..Len(t) : Time24At(t, i).ok}))
        m2 == TimeAmPmAt(t, Leftmost({i \in 1..Len(t) : TimeAmPmAt(t, i).ok}))
        m3 == HoursAt(t, Leftmost({i \in 1..Len(t) : HoursAt(t, i).ok}))
    IN  IF m1.ok /\ ToInt(m1.g1) < 24 /\ ToInt(m1.g2) < 60
        THEN Fmt02(ToInt(m1.g1)) \o ":" \o Fmt02(ToInt(m1.g2))
        ELSE IF m2.ok
        THEN Fmt02(To24h(ToInt(m2.g1), m2.g3)) \o ":" \o Fmt02(ToInt(m2.g2))
        ELSE IF m3.ok /\ ToInt(m3.g1) < 24
        THEN Fmt02(ToInt(m3.g1)) \o ":00"
        ELSE FirstInTable(time_expressions, t)

-----------------------------------------------------------------------------
(* MedicationParser._extract_quantity *)

ParaAt(s, i) ==                        \* para\s+(\d+)\s+(días|semanas|meses)
    LET b == Plus("s", s, Lit(s, i, "para"))
        c == Plus("d", s, b)
        d == Plus("s", s, c)
    IN  IF Alt(s, d, <<"días", "semanas", "meses">>) = "" THEN NoMatch
        ELSE Match(Span(s, b, c), Alt(s, d, <<"días", "semanas", "meses">>), "")

Containers == <<"caja", "cajas", "blister", "blisters", "frascos", "frasco", "botellas", "botella">>

extract_quantity(t) ==
    LET m1 == AmountUnitAt(Containers, t,
                  Leftmost({i \in 1..Len(t) : AmountUnitAt(Containers, t, i).ok}))
        m2 == AmountUnitAt(<<"unidades", "uds", "u">>, t,
                  Leftmost({i \in 1..Len(t) : AmountUnitAt(<<"unidades", "uds", "u">>, t, i).ok}))
        m3 == ParaAt(t, Leftmost({i \in 1..Len(t) : ParaAt(t, i).ok}))
        m  == IF m1.ok THEN m1 ELSE IF m2.ok THEN m2 ELSE m3
    IN  IF m.ok THEN m.g1 \o " " \o m.g2 ELSE None

-----------------------------------------------------------------------------
(* MedicationParser._extract_duration *)

Periodos == <<"días", "semanas", "meses">>

DuranteAt(word, s, i) ==               \* word\s+(\d+)\s*(días|semanas|meses)
    AmountUnitAt(Periodos, s, Plus("s", s, Lit(s, i, word)))

TratamientoAt(s, i) ==                 \* (\d+)\s*(días|semanas|meses)\s+de\s+tratamiento
    LET m == AmountUnitAt(Periodos, s, i)
        p == Star("s", s, Plus("d", s, i)) + Len(m.g2)
    IN  IF m.ok /\ Lit(s, Plus("s", s, Lit(s, Plus("s", s, p), "de")), "tratamiento") # 0
        THEN m ELSE NoMatch

HastaElAt(s, i) ==                     \* hasta\s+el\s+(\d{1,2}/\d{1,2}/\d{4})
    LET b == Plus("s", s, Lit(s, Plus("s", s, Lit(s, i, "hasta")), "el"))
        Try(n, k) == DigitsN(4, s, Lit(s, DigitsN(k, s, Lit(s, DigitsN(n, s, b), "/")), "/"))
        good == {c \in {<<2, 2>>, <<2, 1>>, <<1, 2>>, <<1, 1>>} : Try(c[1], c[2]) # 0}
    IN  IF good = {} THEN NoMatch
        ELSE LET c == CHOOSE x \in good : TRUE
             IN  Match(Span(s, b, Try(c[1], c[2])), "", "")

extract_duration(t) ==
    LET m1 == DuranteAt("por", t, Leftmost({i \in 1..Len(t) : DuranteAt("por", t, i).ok}))
        m2 == DuranteAt("durante", t,
                  Leftmost({i \in 1..Len(t) : DuranteAt("durante", t, i).ok}))
        m3 == TratamientoAt(t, Leftmost({i \in 1..Len(t) : TratamientoAt(t, i).ok}))
        m4 == HastaElAt(t, Leftmost({i \in 1..Len(t) : HastaElAt(t, i).ok}))
    IN  IF m1.ok THEN m1.g1 \o " " \o m1.g2
        ELSE IF m2.ok THEN m2.g1 \o " " \o m2.g2
        ELSE IF m3.ok THEN m3.g1 \o " " \o m3.g2
        ELSE IF m4.ok THEN m4.g1
        ELSE None

-----------------------------------------------------------------------------
(* MedicationParser._calculate_confidence *)

\* confidence = 1.0; a confidence c of the code is the integer c * One here, so
\* that the products by 0.7, 0.6, 0.8, 1.2 and 1.1 are exact.
One == 100000

Times(c, tenths) == (c * tenths) \div 10

\* Python's truth value of an Optional[str]
Truthy(v) == v # None /\ v # ""

Max2(a, b) == IF a >= b THEN a ELSE b
Min2(a, b) == IF a <= b THEN a ELSE b

\* ConfidenceProduct with the test of line 324 inverted: an add_medication
\* record is penalised when its medication was found.
ConfidenceProductPenalizesFound(r) ==
    LET c1 == IF r.action = None THEN Times(One, 7) ELSE One
        c2 == IF r.action = "add_medication" /\ r.medication # None THEN Times(c1, 6) ELSE c1
        c3 == IF r.action = "add_medication" /\ r.dosage = None THEN Times(c2, 8) ELSE c2
        c4 == IF Truthy(r.medication) /\ Truthy(r.dosage) THEN Times(c3, 12) ELSE c3
        c5 == IF Truthy(r.time) THEN Times(c4, 11) ELSE c4
    IN  c5

\* the product before "Limitar entre 0 y 1"
ConfidenceProduct(r) ==
    LET c1 == IF r.action = None THEN Times(One, 7) ELSE One
        c2 == IF r.action = "add_medication" /\ r.medication = None THEN Times(c1, 6) ELSE c1
        c3 == IF r.action = "add_medication" /\ r.dosage = None THEN Times(c2, 8) ELSE c2
        c4 == IF Truthy(r.medication) /\ Truthy(r.dosage) THEN Times(c3, 12) ELSE c3
        c5 == IF Truthy(r.time) THEN Times(c4, 11) ELSE c4
    IN  c5

\* calculate_confidence without the clamp of line 338
calculate_confidence_unclamped(r) == ConfidenceProduct(r)

calculate_confidence(r) == Max2(0, Min2(One, ConfidenceProduct(r)))

-----------------------------------------------------------------------------
(* MedicationParser.validate_medication_info *)

Count(c, s) == Cardinality({i \in 1..Len(s) : Ch(s, i) = c})
AllDigits(s) == s # "" /\ \A i \in 1..Len(s) : IsDigit(Ch(s, i))

\* hour, minute = map(int, time.split(":")) succeeds and both are in range
TimeInRange(s) ==
    /\ Count(":", s) = 1
    /\ LET k == CHOOSE i \in 1..Len(s) : Ch(s, i) = ":"
           h == Strip(Span(s, 1, k))
           m == Strip(Span(s, k + 1, Len(s) + 1))
       IN  AllDigits(h) /\ AllDigits(m) /\ ToInt(h) < 24 /\ ToInt(m) < 60

\* validate_medication_info without the time test of lines 345-351
validate_dosage_only(r) ==
    IF Truthy(r.dosage) THEN [r EXCEPT !.dosage = RemoveSpaces(r.dosage)] ELSE r

validate_medication_info(r) ==
    LET v1 == IF Truthy(r.time) /\ ~TimeInRange(r.time) THEN [r EXCEPT !.time = None] ELSE r
    IN  IF Truthy(v1.dosage) THEN [v1 EXCEPT !.dosage = RemoveSpaces(v1.dosage)] ELSE v1

-----------------------------------------------------------------------------
(* The texts the model calls the interpreter with *)

\* A text is up to MaxFrags of these pieces joined by single spaces, or one of
\* the Scenarios.
MaxFrags == 2

Fragments ==
    << "agregar", "eliminar", "qué", "hoy",
       "paracetamol", "500 mg", "2 tabletas",
       "cada 6 horas", "8:30 pm", "25:00",
       "por 2 semanas", "Tomar jarabe" >>

Scenarios ==
    { "agregar paracetamol 500 mg a las 8 de la mañana cada 12 horas por 14 días",
      "¿qué medicamentos tengo hoy?",
      "eliminar ibuprofeno",
      "Agregar 3 cajas de ibuprofeno dos veces al día durante 10 días" }

RECURSIVE Join(_)
Join(picks) ==
    IF picks = <<>> THEN ""
    ELSE IF Len(picks) = 1 THEN Fragments[picks[1]]
    ELSE Fragments[picks[1]] \o " " \o Join(Tail(picks))

Texts ==
    Scenarios \cup
    {Join(picks) : picks \in UNION {[1..n -> 1..Len(Fragments)] : n \in 0..MaxFrags}}

-----------------------------------------------------------------------------
(* extract_medication_info, one action per statement of extract_info *)

NoRecord == [idle |-> TRUE]

\* Python's {} and []
EmptyDict == <<>>
EmptyList == <<>>

\* no generate_variations call is running
GenIdle ==
    /\ gen_pc = "idle"
    /\ base_command = ""
    /\ components = EmptyDict
    /\ variation_lists = EmptyList
    /\ template_no = 0
    /\ variations = EmptyList
    /\ variation_count = 0

\* Python's False-like "no audio" and "no service" are None; an audio file is
\* named by its path.
NoEngines == [coqui_loads |-> FALSE, pyttsx3_loads |-> FALSE,
              coqui_speaks |-> FALSE, pyttsx3_speaks |-> FALSE]

\* _tts_service = None
NoService == [unset |-> TRUE]

\* tts_service.py imported on a system without either engine; no call yet
TtsIdle ==
    /\ COQUI_AVAILABLE = FALSE
    /\ PYTTSX3_AVAILABLE = FALSE
    /\ tts_engines = NoEngines
    /\ tts_service = NoService
    /\ tts_pc = "idle"
    /\ tts_text = ""
    /\ tts_result = None

\* WhisperSTTService(): default_model "base" is loaded into the empty pool
PoolIdle ==
    /\ models_pool = <<"base">>
    /\ current_model = "base"
    /\ default_model = "base"
    /\ model_uses = [m \in {"base"} |-> 1]
    /\ switch_result = None

\* a datetime: the day counted from today and the time of day
Midnight == [day |-> 0, hour |-> 0, minute |-> 0, second |-> 0]

\* no list of times yet
NoTimes == [raised |-> FALSE, times |-> <<>>]

\* process_and_schedule has returned nothing yet
NoResponse == [pending |-> TRUE]

\* no process_and_schedule call is running
SrvIdle ==
    /\ srv_pc = "idle"
    /\ transcript = ""
    /\ medication_info = NoRecord
    /\ command_type = None
    /\ now = Midnight
    /\ horas_toma = NoTimes
    /\ srv_response = NoResponse

\* reminders.json does not exist
NoFile == [exists |-> FALSE, reminders |-> <<>>]

NoCall == [call |-> "none"]

StoreIdle ==
    /\ reminders_file = NoFile
    /\ store_result = NoCall
    /\ deleted = {}

\* the services and the server before any call
SvcIdle ==
    /\ TtsIdle
    /\ PoolIdle
    /\ SrvIdle
    /\ StoreIdle

Init ==
    /\ parser = MedicationParser
    /\ kept = NoRecord
    /\ GenIdle
    /\ SvcIdle
    /\ nlp \in BOOLEAN
    /\ pc = "idle"
    /\ text = ""
    /\ text_lower = ""
    /\ info = NoRecord
    /\ result = NoRecord

Call(t) ==
    /\ pc = "idle"
    /\ text' = t
    /\ text_lower' = Strip(Lower(t))
    /\ info' = [action |-> None, medication |-> None, dosage |-> None,
                frequency |-> None, time |-> None, quantity |-> None,
                duration |-> None, confidence |-> One, raw_text |-> t]
    /\ pc' = "detect_action"
    /\ UNCHANGED <<parser, kept, genvars, svcvars, nlp, result>>

DetectAction ==
    /\ pc = "detect_action"
    /\ info' = [info EXCEPT !.action = detect_action(nlp, text_lower)]
    /\ pc' = "extract_medication"
    /\ UNCHANGED <<parser, kept, genvars, svcvars, nlp, text, text_lower, result>>

\* a parser that adds what it finds to its lexicon
ExtractMedicationLearning ==
    /\ pc = "extract_medication"
    /\ \E med \in extract_medication(nlp, text_lower) :
           /\ info' = [info EXCEPT !.medication = med]
           /\ parser' = IF med = None THEN parser
                        ELSE [parser EXCEPT !.common_medications = <<Lower(med)>> \o @]
    /\ pc' = "extract_dosage"
    /\ UNCHANGED <<kept, genvars, svcvars, nlp, text, text_lower, result>>

ExtractMedication ==
    /\ pc = "extract_medication"
    /\ \E med \in extract_medication(nlp, text_lower) :
           info' = [info EXCEPT !.medication = med]
    /\ pc' = "extract_dosage"
    /\ UNCHANGED <<parser, kept, genvars, svcvars, nlp, text, text_lower, result>>

ExtractDosage ==
    /\ pc = "extract_dosage"
    /\ info' = [info EXCEPT !.dosage = extract_dosage(text_lower)]
    /\ pc' = "extract_frequency"
    /\ UNCHANGED <<parser, kept, genvars, svcvars, nlp, text, text_lower, result>>

ExtractFrequency ==
    /\ pc = "extract_frequency"
    /\ info' = [info EXCEPT !.frequency = extract_frequency(text_lower)]
    /\ pc' = "extract_time"
    /\ UNCHANGED <<parser, kept, genvars, svcvars, nlp, text, text_lower, result>>

ExtractTime ==
    /\ pc = "extract_time"
    /\ info' = [info EXCEPT !.time = extract_time(text_lower)]
    /\ pc' = "extract_quantity"
    /\ UNCHANGED <<parser, kept, genvars, svcvars, nlp, text, text_lower, result>>

ExtractQuantity ==
    /\ pc = "extract_quantity"
    /\ info' = [info EXCEPT !.quantity = extract_quantity(text_lower)]
    /\ pc' = "extract_duration"
    /\ UNCHANGED <<parser, kept, genvars, svcvars, nlp, text, text_lower, result>>

ExtractDuration ==
    /\ pc = "extract_duration"
    /\ info' = [info EXCEPT !.duration = extract_duration(text_lower)]
    /\ pc' = "calculate_confidence"
    /\ UNCHANGED <<parser, kept, genvars, svcvars, nlp, text, text_lower, result>>

CalculateConfidence ==
    /\ pc = "calculate_confidence"
    /\ info' = [info EXCEPT !.confidence = calculate_confidence(info)]
    /\ pc' = "validate"
    /\ UNCHANGED <<parser, kept, genvars, svcvars, nlp, text, text_lower, result>>

\* a validator that would work on the record it is given, not on a copy
ValidateInPlace ==
    /\ pc = "validate"
    /\ info' = validate_medication_info(info)
    /\ result' = info'
    /\ pc' = "done"
    /\ UNCHANGED <<parser, kept, genvars, svcvars, nlp, text, text_lower>>

\* validated = parser.validate_medication_info(result); return validated
Validate ==
    /\ pc = "validate"
    /\ result' = validate_medication_info(info)
    /\ pc' = "done"
    /\ UNCHANGED <<parser, kept, genvars, svcvars, nlp, text, text_lower, info>>

\* The two statements that run the spaCy pipeline, self.nlp(text), may raise;
\* extract_medication_info catches it and returns this record.
ErrorRecord ==
    [action |-> None, medication |-> None, dosage |-> None, frequency |-> None,
     time |-> None, confidence |-> 0, error |-> "str(e)"]

Raise ==
    /\ nlp
    /\ pc \in {"detect_action", "extract_medication"}
    /\ result' = ErrorRecord
    /\ pc' = "done"
    /\ UNCHANGED <<parser, kept, genvars, svcvars, nlp, text, text_lower, info>>

\* A caller passes one of the texts.
Interpret ==
    /\ pc = "idle"
    /\ \E t \in Texts : Call(t)

\* The caller takes the record; the module-level parser is ready for the next call.
Return ==
    /\ pc = "done"
    /\ pc' = "idle"
    /\ text' = ""
    /\ text_lower' = ""
    /\ info' = NoRecord
    /\ result' = NoRecord
    /\ UNCHANGED <<parser, kept, genvars, svcvars, nlp>>

Next ==
    \/ Interpret
    \/ DetectAction
    \/ ExtractMedication
    \/ ExtractDosage
    \/ ExtractFrequency
    \/ ExtractTime
    \/ ExtractQuantity
    \/ ExtractDuration
    \/ CalculateConfidence
    \/ Validate
    \/ Raise
    \/ Return

Spec == Init /\ [][Next]_vars

-----------------------------------------------------------------------------
(* The scorer and the validator on every record the extractors can hand them *)

ActionValues == {init_action_keywords[n][2] : n \in 1..Len(init_action_keywords)}

\* Values of the kinds the extractors return, None among them.
SlotValues ==
    [action     |-> ActionValues \cup {None},
     medication |-> {None, "Paracetamol", "Jarabe"},
     dosage     |-> {None, "500mg", "2 tabletas"},
     frequency  |-> {None, "Diario", "Cada 12 horas"},
     time       |-> {None, "08:00", "25:00", "20:75", "8pm"},
     quantity   |-> {None, "3 caja"},
     duration   |-> {None, "14 días"}]

Slots == DOMAIN SlotValues

Present(r) == {s \in Slots : r[s] # None}

InitConf ==
    /\ parser = MedicationParser
    /\ kept = NoRecord
    /\ GenIdle
    /\ SvcIdle
    /\ nlp = FALSE
    /\ pc = "calculate_confidence"
    /\ text = ""
    /\ text_lower = ""
    /\ info \in [action : SlotValues.action, medication : SlotValues.medication,
                 dosage : SlotValues.dosage, frequency : SlotValues.frequency,
                 time : SlotValues.time, quantity : SlotValues.quantity,
                 duration : SlotValues.duration, confidence : {One}, raw_text : {""}]
    /\ result = NoRecord

Rescored(r) == [r EXCEPT !.confidence = calculate_confidence(r)]

\* The same record with one absent slot found.
FillSlot(s, v) ==
    /\ pc = "validate"
    /\ info[s] = None
    /\ v # None
    /\ info' = Rescored([info EXCEPT ![s] = v])
    /\ UNCHANGED <<parser, kept, genvars, svcvars, nlp, pc, text, text_lower, result>>

\* The same record with another value in a slot that was found.
ReplaceValue(s, v) ==
    /\ pc = "validate"
    /\ info[s] # None
    /\ v # None
    /\ v # info[s]
    /\ info' = Rescored([info EXCEPT ![s] = v])
    /\ UNCHANGED <<parser, kept, genvars, svcvars, nlp, pc, text, text_lower, result>>

NextConf ==
    \/ CalculateConfidence
    \/ \E s \in Slots : \E v \in SlotValues[s] : FillSlot(s, v)
    \/ \E s \in Slots : \E v \in SlotValues[s] : ReplaceValue(s, v)
    \/ Validate

SpecConf == InitConf /\ [][NextConf]_vars

-----------------------------------------------------------------------------
(* Properties of extract_medication_info (Spec) *)

Returned == pc = "done"
Faulted == pc = "done" /\ "error" \in DOMAIN result
Completed == pc = "done" /\ "error" \notin DOMAIN result

HasFrequencyPhrase(t) ==
    \/ FirstInTable(frequency_map, t) # None
    \/ \E i \in 1..Len(t) : CadaHorasAt(t, i).ok

\* C1: when a step of the interpretation raises, the caller gets a record with
\* action None, confidence 0, each of medication, dosage, frequency, time,
\* quantity and duration present and None, and raw_text equal to the input.
C1_FaultRecordWellFormed ==
    Faulted =>
        /\ result.action = None
        /\ result.confidence = 0
        /\ \A s \in {"medication", "dosage", "frequency", "time", "quantity", "duration"} :
               s \in DOMAIN result /\ result[s] = None
        /\ "raw_text" \in DOMAIN result
        /\ result.raw_text = text

\* C2: the empty text is answered with action None, confidence 0 and every
\* slot (medication, dosage, frequency, time, duration, quantity) None.
C2_EmptyInputIsUnknown ==
    (Completed /\ text = "") =>
        /\ result.action = None
        /\ result.confidence = 0
        /\ \A s \in Slots \ {"action"} : result[s] = None

\* C3: the detected action is the action of the first keyword of the table,
\* in table order, that occurs in the text, wherever the keywords stand in it.
C3_ActionIsFirstInTable ==
    Completed => result.action = FirstInTable(action_keywords, text_lower)

\* C4: a text with "hoy" and "qué" and no add, delete or reminder keyword is
\* interpreted as check_today.
C4_TodayQueryIsCheckToday ==
    (/\ Completed
     /\ In("hoy", text_lower)
     /\ In("qué", text_lower)
     /\ \A n \in 1..Len(action_keywords) :
            action_keywords[n][2] \in {"add_medication", "delete_medication", "set_reminder"}
                => ~In(action_keywords[n][1], text_lower))
        => result.action = "check_today"

\* C5: for an add_medication record, a text without a frequency phrase gets
\* frequency Diario and a text without a duration phrase gets the duration of
\* 7 days.
C5_AddMedicationDefaults ==
    (Completed /\ result.action = "add_medication") =>
        /\ ~HasFrequencyPhrase(text_lower) => result.frequency = "Diario"
        /\ extract_duration(text_lower) = None => result.duration = "7 días"

\* C6: for any action other than add_medication, a text without a frequency
\* phrase gets no frequency, and duration, time and dosage stay None when the
\* text does not carry them.
C6_NoDefaultsForOtherActions ==
    (Completed /\ result.action # "add_medication") =>
        /\ ~HasFrequencyPhrase(text_lower) => result.frequency = None
        /\ extract_duration(text_lower) = None => result.duration = None
        /\ extract_time(text_lower) = None => result.time = None
        /\ extract_dosage(text_lower) = None => result.dosage = None

-----------------------------------------------------------------------------
(* Properties of _calculate_confidence (SpecConf) *)

Scored == pc \in {"validate", "done"}

\* C7: finding a slot that was absent, the other slots unchanged, never lowers
\* the confidence.
C7_ConfidenceMonotone ==
    [][(/\ pc = "validate" /\ pc' = "validate"
        /\ Present(info') # Present(info)
        /\ Present(info) \subseteq Present(info'))
         => info'.confidence >= info.confidence]_vars

\* C8: the confidence depends only on which slots are present: records with
\* the same present slots have the same confidence, whatever the values.
C8_ConfidenceDependsOnPresenceOnly ==
    [][(/\ pc = "validate" /\ pc' = "validate"
        /\ Present(info') = Present(info))
         => info'.confidence = info.confidence]_vars

\* C9: whatever slots are present and whatever the action, the confidence of
\* the scored record and of the returned record is between 0 and 1.
C9_ConfidenceInUnitInterval ==
    /\ info.confidence \in 0..One
    /\ Returned => result.confidence \in 0..One

\* a record whose rewards exceed 1 before the clamp was scored and returned
C9_Witness ==
    /\ Returned
    /\ ConfidenceProduct(info) > One
    /\ result.confidence = One

AllPresent(r) ==
    {"action", "medication", "dosage", "frequency", "time", "duration"} \subseteq Present(r)

\* C10: a record with action, medication, dosage, frequency, time and duration
\* all present has confidence exactly 1.
C10_AllSlotsGiveFullConfidence ==
    /\ (Scored /\ AllPresent(info)) => info.confidence = One
    /\ (Returned /\ AllPresent(result)) => result.confidence = One

\* the record of "agregar paracetamol 500 mg a las 8 de la mañana cada 12 horas
\* por 14 días" was scored and returned
C10_Witness ==
    /\ Returned
    /\ result.action = "add_medication"
    /\ result.medication = "Paracetamol"
    /\ result.dosage = "500mg"
    /\ result.time = "08:00"
    /\ result.frequency = "Cada 12 horas"
    /\ result.duration = "14 días"
    /\ result.confidence = One

-----------------------------------------------------------------------------
(* extract_medication_info on phrases of one slot *)

\* str(n)
RECURSIVE Dec(_)
Dec(n) ==
    IF n < 10 THEN Ch("0123456789", n + 1)
    ELSE Dec(n \div 10) \o Ch("0123456789", (n % 10) + 1)

\* Clock phrases: an hour of the 12-hour clock, minutes or none, a qualifier.
MaxHour == 12
Hours == 1..MaxHour
MinuteParts == {"", ":30", " 30"}
MorningQualifiers == {"am", "a.m.", "de la mañana"}
EveningQualifiers == {"pm", "p.m.", "de la tarde", "de la noche"}
Qualifiers == MorningQualifiers \cup EveningQualifiers

TimeText(h, mp, q) == Dec(h) \o mp \o " " \o q

\* Clock phrases whose hour or minute is not one of a day.
OddTimeTexts == {"25 pm", "99 de la noche", "8:75 pm", "30 am"}

TimeTexts ==
    {TimeText(h, mp, q) : h \in Hours, mp \in MinuteParts, q \in Qualifiers}
        \cup OddTimeTexts \cup {"a las 20:15", "tomar a las 8 horas", "antes de dormir", "agregar paracetamol"}

\* Frequency phrases: an interval in hours, or so many times a day.
MaxEvery == 24
EveryHoursText(n) == "cada " \o Dec(n) \o " horas"

FrequencyTexts ==
    {EveryHoursText(n) : n \in 1..MaxEvery}
        \cup {"tres veces al día", "dos veces al día", "una vez al día", "cada semana",
              "cuando sea necesario", "tomar 1 tableta cada 6 horas"}

\* Duration phrases: so many days, weeks or months.
MaxDuration == 14
DurationText(a, u) == "por " \o Dec(a) \o " " \o u

DurationTexts ==
    {DurationText(a, u) : a \in 1..MaxDuration, u \in {"días", "semanas", "meses"}}
        \cup {"durante 10 días", "3 semanas de tratamiento", "hasta el 5/12/2025"}

\* Dosage phrases: an amount and a unit of mass, volume or count.
MaxAmount == 2
DosageText(a, u) == Dec(a) \o " " \o u

DosageTexts ==
    {DosageText(a, MassUnits[n]) : a \in 0..MaxAmount, n \in 1..Len(MassUnits)}
        \cup {DosageText(a, CountUnits[n]) : a \in 0..MaxAmount, n \in 1..Len(CountUnits)}
        \cup {"500mg", "dosis de 5 ml", "2 tabletas de 500 mg"}

PhraseTexts == TimeTexts \cup FrequencyTexts \cup DurationTexts \cup DosageTexts

InterpretPhrase ==
    /\ pc = "idle"
    /\ \E t \in PhraseTexts : Call(t)

NextPhrases ==
    \/ InterpretPhrase
    \/ DetectAction
    \/ ExtractMedication
    \/ ExtractDosage
    \/ ExtractFrequency
    \/ ExtractTime
    \/ ExtractQuantity
    \/ ExtractDuration
    \/ CalculateConfidence
    \/ Validate
    \/ Raise
    \/ Return

SpecPhrases == Init /\ [][NextPhrases]_vars

-----------------------------------------------------------------------------
(* Properties of _extract_time (SpecPhrases) *)

\* info["time"] holds what _extract_time returned
TimeExtracted ==
    pc \in {"extract_quantity", "extract_duration", "calculate_confidence", "validate"}

\* the hour of the 24-hour clock that the 12-hour rule gives
Hour24(h, q) ==
    IF q \in MorningQualifiers /\ h = 12 THEN 0
    ELSE IF q \in EveningQualifiers /\ h < 12 THEN h + 12
    ELSE h

\* C11: for every hour h, with or without minutes, and every qualifier (am,
\* a.m., de la mañana; pm, p.m., de la tarde, de la noche), the extracted time
\* is the 24-hour time: 12 of the morning is hour 0, an hour below 12 of the
\* afternoon or night is h + 12, any other hour is unchanged, and the minutes
\* are kept.
C11_TwelveHourToTwentyFour ==
    TimeExtracted =>
        \A h \in Hours : \A mp \in MinuteParts : \A q \in Qualifiers :
            text = TimeText(h, mp, q) =>
                info.time = Fmt02(Hour24(h, q)) \o ":" \o (IF mp = "" THEN "00" ELSE "30")

\* a zero-padded HH:MM of the 24-hour clock
IsClockTime(s) ==
    /\ Len(s) = 5
    /\ Ch(s, 3) = ":"
    /\ AllDigits(Span(s, 1, 3)) /\ ToInt(Span(s, 1, 3)) \in 0..23
    /\ AllDigits(Span(s, 4, 6)) /\ ToInt(Span(s, 4, 6)) \in 0..59

\* one of the four patterns of _extract_time occurs in the text
HasTimePhrase(t) ==
    \/ \E i \in 1..Len(t) : Time24At(t, i).ok \/ TimeAmPmAt(t, i).ok \/ HoursAt(t, i).ok
    \/ FirstInTable(time_expressions, t) # None

\* C12: whatever the text and whichever pattern matched, an extracted time is a
\* zero-padded HH:MM with the hour in 0..23 and the minute in 0..59; a text in
\* which no time pattern occurs has no time.
C12_ExtractedTimeIsClockTime ==
    TimeExtracted =>
        /\ info.time # None => IsClockTime(info.time)
        /\ ~HasTimePhrase(text_lower) => info.time = None

-----------------------------------------------------------------------------
(* Properties of validate_medication_info (SpecConf) *)

\* the text reads H:M with a decimal hour and a decimal minute
ParsesAsHourMinute(s) ==
    /\ Count(":", s) = 1
    /\ \E k \in 1..Len(s) :
           /\ Ch(s, k) = ":"
           /\ AllDigits(Span(s, 1, k))
           /\ AllDigits(Span(s, k + 1, Len(s) + 1))

HourOf(s) == ToInt(Span(s, 1, CHOOSE k \in 1..Len(s) : Ch(s, k) = ":"))
MinuteOf(s) == ToInt(Span(s, (CHOOSE k \in 1..Len(s) : Ch(s, k) = ":") + 1, Len(s) + 1))

InDay(s) == ParsesAsHourMinute(s) /\ HourOf(s) \in 0..23 /\ MinuteOf(s) \in 0..59

\* C13: the validator returns a record, never an error; a time that does not
\* read as H:M or whose hour is outside 0..23 or whose minute is outside 0..59
\* is cleared; action, medication, frequency, duration, quantity, confidence
\* and raw_text are returned unchanged; the returned time is None or in range.
C13_ValidatorClearsBadTime ==
    Returned =>
        /\ "error" \notin DOMAIN result
        /\ (info.time # None /\ ~InDay(info.time)) => result.time = None
        /\ \A s \in {"action", "medication", "frequency", "duration", "quantity",
                     "confidence", "raw_text"} : result[s] = info[s]
        /\ result.time = None \/ InDay(result.time)

\* a record whose time was 25:00 was validated: the time is gone, the dosage
\* lost its space, the rest is as it was
C13_Witness ==
    /\ Returned
    /\ info.time = "25:00"
    /\ result.time = None
    /\ info.dosage = "2 tabletas"
    /\ result.medication = "Paracetamol"

-----------------------------------------------------------------------------
(* Properties of _extract_frequency (SpecPhrases) *)

\* C14: "tres veces al día" is given the frequency of "cada 8 horas", and
\* "dos veces al día" the frequency of "cada 12 horas".
C14_TimesADayIsEveryHours ==
    Completed =>
        /\ text = "tres veces al día" => result.frequency = extract_frequency("cada 8 horas")
        /\ text = "dos veces al día" => result.frequency = extract_frequency("cada 12 horas")

\* the frequency "every n hours"
EveryNHours(n) == "Cada " \o Dec(n) \o " horas"

\* C15: for every positive N the text "cada N horas" gets the frequency every
\* N hours (for N = 24 the daily frequency is the same interval), never the
\* daily default in its place; every returned frequency is every-N-hours,
\* daily, weekly or as-needed.
C15_EveryNHoursIsKept ==
    Completed =>
        /\ \A n \in 1..MaxEvery :
               text = EveryHoursText(n) =>
                   \/ result.frequency = EveryNHours(n)
                   \/ n = 24 /\ result.frequency = "Diario"
        /\ result.frequency \in
               {"Diario", "Semanal", "Cuando sea necesario"}
                   \cup {EveryNHours(n) : n \in 1..MaxEvery}

-----------------------------------------------------------------------------
(* Properties of _extract_duration (SpecPhrases) *)

DaysIn(u) == CASE u = "días" -> 1 [] u = "semanas" -> 7 [] u = "meses" -> 30

\* the value says n days, as a bare count or with the word
IsDays(v, n) == v = Dec(n) \/ v = Dec(n) \o " días"

\* C16: the duration is a number of days: "por a días" is a days, "por a
\* semanas" is 7a days and "por a meses" is 30a days.
C16_DurationInDays ==
    Completed =>
        \A a \in 1..MaxDuration : \A u \in {"días", "semanas", "meses"} :
            text = DurationText(a, u) => IsDays(result.duration, a * DaysIn(u))

-----------------------------------------------------------------------------
(* Properties of _extract_dosage and the validator's dosage step (SpecPhrases) *)

DosageAmount(d) == Span(d, 1, RunEnd("d", d, 1))
DosageUnit(d) == Span(d, RunEnd("d", d, 1), Len(d) + 1)

CanonicalUnits ==
    {MassUnits[n] : n \in 1..Len(MassUnits)} \cup {CountUnits[n] : n \in 1..Len(CountUnits)}

\* C17: a returned dosage is a strictly positive whole amount followed by a
\* unit of the unit vocabulary, with no white space in it; a count word
\* (tabletas, cápsulas, pastillas, ...) of the text is the unit of the dosage.
C17_DosageIsPositiveAmountAndUnit ==
    Completed =>
        /\ result.dosage # None =>
               /\ AllDigits(DosageAmount(result.dosage))
               /\ ToInt(DosageAmount(result.dosage)) > 0
               /\ DosageUnit(result.dosage) \in CanonicalUnits
               /\ ~In(" ", result.dosage)
        /\ \A a \in 0..MaxAmount : \A n \in 1..Len(CountUnits) :
               text = DosageText(a, CountUnits[n]) =>
                   result.dosage # None /\ DosageUnit(result.dosage) = CountUnits[n]

-----------------------------------------------------------------------------
(* CommandVariationGenerator.__init__ *)

Placeholders ==
    <<"{starter}", "{action}", "{medication}", "{dosage}", "{time}", "{frequency}",
      "{duration}">>

\* the number of a placeholder in Placeholders
PlaceholderNo ==
    [ph \in {Placeholders[j] : j \in 1..Len(Placeholders)} |->
        CHOOSE j \in 1..Len(Placeholders) : Placeholders[j] = ph]

\* a template is its placeholders and the text between them, in order
templates ==
    << <<"{starter}", " ", "{action}", " ", "{medication}", " de ", "{dosage}", " ",
         "{time}", " con frecuencia ", "{frequency}", " ", "{duration}">>,
       <<"{starter}", " ", "{action}", " ", "{medication}", " ", "{dosage}", " ",
         "{time}", " cada ", "{frequency}", " ", "{duration}">>,
       <<"{starter}", " ", "{action}", " ", "{dosage}", " de ", "{medication}", " ",
         "{time}", " tomando ", "{frequency}", " ", "{duration}">>,
       <<"{starter}", " ", "{action}", " el ", "{medication}", " de ", "{dosage}", " ",
         "{time}", " ", "{frequency}", " ", "{duration}">>,
       <<"{starter}", " ", "{action}", " ", "{medication}", " con dosis de ", "{dosage}", " ",
         "{time}", " ", "{frequency}", " por ", "{duration}">>,
       <<"{starter}", " ", "{action}", " tomar ", "{medication}", " ", "{dosage}", " ",
         "{time}", " ", "{frequency}", " ", "{duration}">>,
       <<"{starter}", " por favor ", "{action}", " ", "{medication}", " ", "{dosage}", " ",
         "{time}", " ", "{frequency}", " ", "{duration}">>,
       <<"{starter}", " quiero ", "{action}", " ", "{medication}", " ", "{dosage}", " ",
         "{time}", " ", "{frequency}", " ", "{duration}">>,
       <<"{starter}", " necesito ", "{action}", " ", "{medication}", " ", "{dosage}", " ",
         "{time}", " ", "{frequency}", " ", "{duration}">> >>

\* template.format(starter=..., ...), the values in the order of Placeholders
RECURSIVE Format(_, _)
Format(template, values) ==
    IF template = <<>> THEN ""
    ELSE (IF Head(template) \in DOMAIN PlaceholderNo
          THEN values[PlaceholderNo[Head(template)]]
          ELSE Head(template))
             \o Format(Tail(template), values)

-----------------------------------------------------------------------------
(* CommandVariationGenerator._get_starter_variations *)

get_starter_variations ==
    <<"Mi Dosis", "Dosis", "Asistente", "Hey Dosis", "Hola Dosis",
      "OK Dosis", "Oye Dosis", "Asistente médico", "Asistente de medicamentos",
      "Medicación", "Recuérdame", "Por favor">>

-----------------------------------------------------------------------------
(* CommandVariationGenerator._parse_base_command.  The patterns are compiled
   with re.IGNORECASE: positions are found in the lower-cased command lc, the
   groups are cut from the command s itself. *)

\* for starter in starters: if command.lower().startswith(starter.lower())
ParsedStarter(s) ==
    LET starters == get_starter_variations
        hits == {n \in 1..Len(starters) : HasAt(Lower(s), 1, Lower(starters[n]))}
    IN  IF hits = {} THEN None ELSE starters[Min(hits)]

\* re.search of an alternation of words: group(0) of the leftmost hit
AltSearch(alts, s) ==
    LET lc == Lower(s)
        i == Leftmost({k \in 1..Len(lc) : Alt(lc, k, alts) # ""})
    IN  IF i = 0 THEN None ELSE Span(s, i, i + Len(Alt(lc, i, alts)))

action_patterns ==
    << <<"agregar", "añadir", "poner", "programar", "registrar", "necesitar", "querer">>,
       <<"agrégame", "añádeme", "ponme", "programame", "registrame">> >>

ParsedAction(s) ==
    IF AltSearch(action_patterns[1], s) # None THEN AltSearch(action_patterns[1], s)
    ELSE AltSearch(action_patterns[2], s)

GenMedAt(s, lc, i) ==                  \* (?:agregar|añadir|poner|tomar)\s+(?:el\s+)?(\w+)
    LET v == Alt(lc, i, <<"agregar", "añadir", "poner", "tomar">>)
        b == IF v = "" THEN 0 ELSE Plus("s", lc, i + Len(v))
        d == Plus("s", lc, Lit(lc, b, "el"))
        e == Plus("w", lc, d)
        c == Plus("w", lc, b)
    IN  IF e # 0 THEN Match(Span(s, d, e), "", "")
        ELSE IF c # 0 THEN Match(Span(s, b, c), "", "")
        ELSE NoMatch

GenDosageAt(s, lc, i) ==               \* (\d+)\s*(mg|g|ml|tableta)
    LET e == Plus("d", lc, i)
        p == Star("s", lc, e)
        u == Alt(lc, p, <<"mg", "g", "ml", "tableta">>)
    IN  IF u = "" THEN NoMatch ELSE Match(Span(s, i, e), Span(s, p, p + Len(u)), "")

\* a las (\d{1,2})(?::\d{2})?\s*(?:de la\s+)?(mañana|tarde|noche|am|pm)?
\* Every part after the hour is optional, so the greedy choice of each stands.
GenTimeAt(s, lc, i) ==
    LET a == Lit(lc, i, "a las ")
        b == IF DigitsN(2, lc, a) # 0 THEN DigitsN(2, lc, a) ELSE DigitsN(1, lc, a)
        m == DigitsN(2, lc, Lit(lc, b, ":"))
        c == IF m # 0 THEN m ELSE b
        d == Star("s", lc, c)
        l == Plus("s", lc, Lit(lc, d, "de la"))
        e == IF l # 0 THEN l ELSE d
        per == Alt(lc, e, <<"mañana", "tarde", "noche", "am", "pm">>)
    IN  IF b = 0 THEN NoMatch
        ELSE Match(Span(s, a, b), IF per = "" THEN "" ELSE Span(s, e, e + Len(per)), "")

GenAmountAt(word, units, s, lc, i) ==  \* word\s+(\d+\s*(?:unit|unit|...))
    LET b == Plus("s", lc, Lit(lc, i, word))
        c == Plus("d", lc, b)
        p == Star("s", lc, c)
        u == Alt(lc, p, units)
    IN  IF u = "" THEN NoMatch ELSE Match(Span(s, b, p + Len(u)), "", "")

\* the groups that were found, None for a pattern that did not match
ParsedSlots(s) ==
    LET lc  == Lower(s)
        med == GenMedAt(s, lc, Leftmost({i \in 1..Len(lc) : GenMedAt(s, lc, i).ok}))
        dos == GenDosageAt(s, lc, Leftmost({i \in 1..Len(lc) : GenDosageAt(s, lc, i).ok}))
        tim == GenTimeAt(s, lc, Leftmost({i \in 1..Len(lc) : GenTimeAt(s, lc, i).ok}))
        frq == GenAmountAt("cada", <<"horas", "días">>, s, lc,
                   Leftmost({i \in 1..Len(lc) :
                       GenAmountAt("cada", <<"horas", "días">>, s, lc, i).ok}))
        dur == GenAmountAt("por", <<"días", "semanas", "meses">>, s, lc,
                   Leftmost({i \in 1..Len(lc) :
                       GenAmountAt("por", <<"días", "semanas", "meses">>, s, lc, i).ok}))
    IN  [starter    |-> ParsedStarter(s),
         action     |-> ParsedAction(s),
         medication |-> IF med.ok THEN med.g1 ELSE None,
         dosage     |-> IF dos.ok THEN dos.g1 \o " " \o dos.g2 ELSE None,
         time       |-> IF tim.ok
                        THEN "a las " \o tim.g1 \o (IF tim.g2 # "" THEN " " \o tim.g2 ELSE "")
                        ELSE None,
         frequency  |-> IF frq.ok THEN "cada " \o frq.g1 ELSE None,
         duration   |-> IF dur.ok THEN "por " \o dur.g1 ELSE None]

\* the dict: only the keys that were assigned
parse_base_command(s) ==
    LET found == ParsedSlots(s)
    IN  [k \in {x \in DOMAIN found : found[x] # None} |-> found[k]]

\* components.get(key, "")
Get(dict, key) == IF key \in DOMAIN dict THEN dict[key] ELSE ""

-----------------------------------------------------------------------------
(* CommandVariationGenerator._get_*_variations *)

action_map ==
    << <<"agregar",
         <<"agrégame", "añádeme", "ponme", "programame", "registrame",
           "creame", "iníciame", "comiénzame", "empézame", "necesito agregar",
           "quiero agregar", "requiero agregar", "preciso agregar", "deseo agregar",
           "recétame", "prescríbeme", "indícame", "configurame", "estableceme">> >>,
       <<"añadir",
         <<"añádeme", "agrégame", "suma", "incluye", "incorpora",
           "agrega", "añade", "pon", "agregar", "poner">> >> >>

\* for key, variations in table.items(): if key in text: return variations;
\* otherwise the given list
FirstListInTable(table, t, otherwise) ==
    LET hits == {n \in 1..Len(table) : In(table[n][1], t)}
    IN  IF hits = {} THEN otherwise ELSE table[Min(hits)][2]

get_action_variations(base_action) ==
    FirstListInTable(action_map, Lower(base_action),
                     <<base_action, "agrégame", "añádeme", "ponme">>)

med_variations ==
    << <<"paracetamol",
         <<"paracetamol", "acetaminofén", "tylenol", "dolofin", "panadol",
           "el paracetamol", "paracetamol de 500", "paracetamol genérico">> >>,
       <<"ibuprofeno",
         <<"ibuprofeno", "advil", "motrin", "ibu", "ibuprofeno de 400",
           "el ibuprofeno", "ibuprofeno genérico">> >>,
       <<"omeprazol",
         <<"omeprazol", "prilosec", "losec", "omez", "omeprazol de 20",
           "el omeprazol", "cápsula de omeprazol">> >>,
       <<"aspirina",
         <<"aspirina", "ácido acetilsalicílico", "aspirina de 100",
           "la aspirina", "aspirina infantil">> >>,
       <<"amoxicilina",
         <<"amoxicilina", "amoxicilina de 500", "antibiótico",
           "la amoxicilina", "amoxicilina cápsulas">> >> >>

get_medication_variations(base_med) ==
    FirstListInTable(med_variations, Lower(base_med), <<base_med>>)

\* re.match(r'(\d+)\s*(mg|g|ml|tableta|tabletas|cápsula|cápsulas)', base_dosage)
get_dosage_variations(base_dosage) ==
    LET lc == Lower(base_dosage)
        e == Plus("d", lc, 1)
        p == Star("s", lc, e)
        u == Alt(lc, p, <<"mg", "g", "ml", "tableta", "tabletas", "cápsula", "cápsulas">>)
        value == Span(base_dosage, 1, e)
        unit == Span(base_dosage, p, p + Len(u))
    IN  IF u = "" THEN <<base_dosage>>
        ELSE <<value \o " " \o unit,
               "de " \o value \o " " \o unit,
               "dosis de " \o value \o " " \o unit,
               value \o unit,
               IF Lower(unit) = "mg" THEN value \o " miligramos" ELSE base_dosage>>

\* a las (\d{1,2})(?:\s*(?:de la\s+)?(mañana|tarde|noche|am|pm))?
VarTimeAt(s, lc, i) ==
    LET a == Lit(lc, i, "a las ")
        b == IF DigitsN(2, lc, a) # 0 THEN DigitsN(2, lc, a) ELSE DigitsN(1, lc, a)
        d == Star("s", lc, b)
        l == Plus("s", lc, Lit(lc, d, "de la"))
        periods == <<"mañana", "tarde", "noche", "am", "pm">>
        e == IF Alt(lc, l, periods) # "" THEN l ELSE d
        per == Alt(lc, e, periods)
    IN  IF b = 0 THEN NoMatch
        ELSE Match(Span(s, a, b), IF per = "" THEN "" ELSE Span(s, e, e + Len(per)), "")

\* set(time_variations), or the one element of [base_time]
time_variations(base_time) ==
    LET lc == Lower(base_time)
        m == VarTimeAt(base_time, lc, Leftmost({i \in 1..Len(lc) : VarTimeAt(base_time, lc, i).ok}))
        hour == m.g1
        period_lower == Lower(m.g2)
        daypart ==
            IF m.g2 = "" THEN ""
            ELSE IF In("mañana", period_lower) \/ In("am", period_lower) THEN "mañana"
            ELSE IF In("tarde", period_lower) THEN "tarde"
            ELSE IF In("noche", period_lower) \/ In("pm", period_lower) THEN "noche"
            ELSE ""
        with_period ==
            IF daypart = "" THEN {}
            ELSE {"a las " \o hour \o " de la " \o daypart,
                  "a las " \o hour \o (IF daypart = "mañana" THEN " am" ELSE " pm"),
                  "en la " \o daypart \o " a las " \o hour,
                  "por la " \o daypart \o " a las " \o hour,
                  "a las " \o hour \o " en la " \o daypart}
    IN  IF ~m.ok THEN {base_time}
        ELSE with_period \cup
             {"a las " \o hour, "a las " \o hour \o ":00", "a la hora " \o hour,
              "a las " \o hour \o " horas"}

VarFreqAt(s, i) ==                     \* cada\s+(\d+)\s*(horas|días)
    LET b == Plus("s", s, Lit(s, i, "cada"))
        c == Plus("d", s, b)
        p == Star("s", s, c)
        u == Alt(s, p, <<"horas", "días">>)
    IN  IF u = "" THEN NoMatch ELSE Match(Span(s, b, c), u, "")

\* set(freq_variations), or the one element of [base_freq]
freq_variations(base_freq) ==
    LET lc == Lower(base_freq)
        m == VarFreqAt(lc, Leftmost({i \in 1..Len(lc) : VarFreqAt(lc, i).ok}))
        value == m.g1
        unit == m.g2
        found ==
            IF ~m.ok THEN {}
            ELSE IF In("hora", unit) /\ value = "8"
            THEN {"cada 8 horas", "cada ocho horas", "tres veces al día", "cada 8 hrs",
                  "cada ocho hrs", "cada 8h"}
            ELSE IF In("hora", unit) /\ value = "12"
            THEN {"cada 12 horas", "cada doce horas", "dos veces al día", "cada 12 hrs",
                  "cada doce hrs", "cada 12h"}
            ELSE IF In("hora", unit) /\ value = "24"
            THEN {"cada 24 horas", "diario", "una vez al día", "todos los días", "cada día"}
            ELSE IF ~In("hora", unit) /\ In("día", unit) /\ value = "1"
            THEN {"diario", "todos los días", "una vez al día", "cada día", "diariamente"}
            ELSE IF ~In("hora", unit) /\ In("día", unit) /\ value = "7"
            THEN {"semanal", "una vez por semana", "cada semana", "semanalmente"}
            ELSE {}
    IN  IF found = {} THEN {base_freq} ELSE found

\* str.rstrip('s')
RECURSIVE RStripS(_)
RStripS(u) == IF u # "" /\ Ch(u, Len(u)) = "s" THEN RStripS(SubSeq(u, 1, Len(u) - 1)) ELSE u

\* re.match(r'por\s+(\d+)\s*(días|día|semanas|semana|meses|mes)', base_duration)
get_duration_variations(base_duration) ==
    LET lc == Lower(base_duration)
        b == Plus("s", lc, Lit(lc, 1, "por"))
        c == Plus("d", lc, b)
        p == Star("s", lc, c)
        u == Alt(lc, p, <<"días", "día", "semanas", "semana", "meses", "mes">>)
        value == Span(base_duration, b, c)
        unit == Span(base_duration, p, p + Len(u))
    IN  IF u = "" THEN <<base_duration>>
        ELSE <<"por " \o value \o " " \o unit,
               "durante " \o value \o " " \o unit,
               "para " \o value \o " " \o unit,
               "por un período de " \o value \o " " \o unit,
               "por " \o value \o " " \o unit \o " seguidos",
               IF Ch(unit, Len(unit)) = "s"
               THEN "por " \o value \o " " \o RStripS(unit)
               ELSE "por " \o value \o " " \o unit \o "s">>

\* list[:n]
Slice(list, n) == SubSeq(list, 1, Min2(n, Len(list)))

\* list(set(...))[:2]: the order of the elements of a set of strings depends on
\* the hash seed of the process, so any two of them can come first.
FirstTwoOfSet(S) ==
    IF Cardinality(S) = 1 THEN {<<x>> : x \in S}
    ELSE {<<p[1], p[2]>> : p \in {q \in S \X S : q[1] # q[2]}}

-----------------------------------------------------------------------------
(* CommandVariationGenerator.generate_variations *)

max_variations == 50

\* if variation_count >= max_variations
CapNeverReached(count) == FALSE

CapReached(count) == count >= max_variations

\* the number of combinations of the lists j, j+1, ... of the seven lists,
\* which stand in the order of Placeholders
RECURSIVE Combinations(_, _)
Combinations(lists, j) ==
    IF j > Len(lists) THEN 1 ELSE Len(lists[j]) * Combinations(lists, j + 1)

\* for each loop, the number of passes through the body per element of its list
Strides(lists) == [j \in 1..Len(lists) |-> Combinations(lists, j + 1)]

\* the values of the k-th pass (from 0) through the body of the seven loops
\* nested in the template loop: starter outermost, duration innermost
LoopValues(lists, strides, k) ==
    [j \in 1..Len(lists) |-> lists[j][((k \div strides[j]) % Len(lists[j])) + 1]]

\* loops that would test the cap after appending instead of before
InnerLoopsTestAfter(template, lists, count) ==
    LET n == Combinations(lists, 1)
        strides == Strides(lists)
        appending == {k \in 0..(n - 1) : k = 0 \/ ~CapReached(count + k)}
    IN  [i \in 1..Cardinality(appending) |->
            Format(template, LoopValues(lists, strides, i - 1))]

\* The loops nested in one pass of the template loop, entered with the counter
\* at count: what they append.  Pass k (from 0) finds the counter at count + k
\* if no earlier pass broke; once the cap is reached the break leaves the
\* innermost loop with the counter unchanged, so every later pass breaks too.
InnerLoops(template, lists, count) ==
    LET n == Combinations(lists, 1)
        strides == Strides(lists)
        appending == {k \in 0..(n - 1) : ~CapReached(count + k)}
    IN  [i \in 1..Cardinality(appending) |->
            Format(template, LoopValues(lists, strides, i - 1))]

\* The base commands the generator is called with.
GenCommands ==
    { "Mi Dosis agregame paracetamol de 500 mg a las 8 de la mañana con frecuencia cada 12 horas por 14 días",
      "agregar paracetamol de 500 mg a las 8 de la mañana con frecuencia cada 12 horas por 14 días",
      "agregar paracetamol de 500 mg a las 8 por 14 días",
      "Mi Dosis agrégame paracetamol 500 mg por 14 días",
      "Oye Dosis quiero añadir el omeprazol 20 MG a las 10:30 PM por 2 meses",
      "añadir el jarabe 5 ml cada 7 días",
      "Tomar aspirina 1 tableta a las 9 de la noche",
      "agregar paracetamol",
      "ponme ibuprofeno",
      "Hola Dosis",
      "cada 6 horas",
      "qué medicamentos tengo hoy",
      "" }

\* variations = []
GenerateVariations(cmd) ==
    /\ gen_pc = "idle"
    /\ base_command' = cmd
    /\ variations' = EmptyList
    /\ gen_pc' = "parse"
    /\ UNCHANGED <<intvars, svcvars, components, variation_lists, template_no, variation_count>>

Generate ==
    /\ gen_pc = "idle"
    /\ \E cmd \in GenCommands : GenerateVariations(cmd)

\* components = self._parse_base_command(base_command)
\* if not components: return variations
ParseBaseCommand ==
    /\ gen_pc = "parse"
    /\ components' = parse_base_command(base_command)
    /\ gen_pc' = IF DOMAIN components' = {} THEN "done" ELSE "expand"
    /\ UNCHANGED <<intvars, svcvars, base_command, variation_lists, template_no, variations,
                   variation_count>>

\* the seven variation lists, cut to the slices the loops run over;
\* max_variations = 50; variation_count = 0
GetVariations ==
    /\ gen_pc = "expand"
    /\ \E time_slice \in FirstTwoOfSet(time_variations(Get(components, "time"))) :
       \E frequency_slice \in FirstTwoOfSet(freq_variations(Get(components, "frequency"))) :
           variation_lists' =
               << Slice(get_starter_variations, 3),
                  Slice(get_action_variations(Get(components, "action")), 3),
                  Slice(get_medication_variations(Get(components, "medication")), 2),
                  Slice(get_dosage_variations(Get(components, "dosage")), 2),
                  time_slice,
                  frequency_slice,
                  Slice(get_duration_variations(Get(components, "duration")), 2) >>
    /\ variation_count' = 0
    /\ template_no' = 0
    /\ gen_pc' = "loop"
    /\ UNCHANGED <<intvars, svcvars, base_command, components, variations>>

\* one pass of `for template in self.templates[:3]`; after the last, return variations
TemplateLoop ==
    /\ gen_pc = "loop"
    /\ LET appended == InnerLoops(Slice(templates, 3)[template_no + 1], variation_lists,
                                  variation_count)
       IN  /\ variations' = variations \o appended
           /\ variation_count' = variation_count + Len(appended)
    /\ template_no' = template_no + 1
    /\ gen_pc' = IF template_no' = Len(Slice(templates, 3)) THEN "done" ELSE "loop"
    /\ UNCHANGED <<intvars, svcvars, base_command, components, variation_lists>>

\* the caller takes the list
GenReturn ==
    /\ gen_pc = "done"
    /\ gen_pc' = "idle"
    /\ base_command' = ""
    /\ components' = EmptyDict
    /\ variation_lists' = EmptyList
    /\ template_no' = 0
    /\ variations' = EmptyList
    /\ variation_count' = 0
    /\ UNCHANGED <<intvars, svcvars>>

InitGen ==
    /\ parser = MedicationParser
    /\ kept = NoRecord
    /\ GenIdle
    /\ SvcIdle
    /\ nlp = FALSE
    /\ pc = "idle"
    /\ text = ""
    /\ text_lower = ""
    /\ info = NoRecord
    /\ result = NoRecord

NextGen ==
    \/ Generate
    \/ ParseBaseCommand
    \/ GetVariations
    \/ TemplateLoop
    \/ GenReturn

SpecGen == InitGen /\ [][NextGen]_vars

-----------------------------------------------------------------------------
(* Properties of generate_variations (SpecGen) *)

GenReturned == gen_pc = "done"

\* C19: whatever the base command, the list that generate_variations builds
\* and returns never has more than max_variations (50) strings.
C19_AtMostCapVariations ==
    /\ Len(variations) <= max_variations
    /\ GenReturned => Len(variations) <= max_variations

\* a call whose loops had more than 50 combinations to run through returned
\* exactly 50 strings
C19_Witness ==
    /\ GenReturned
    /\ variation_lists # EmptyList
    /\ Len(Slice(templates, 3)) * Combinations(variation_lists, 1) > max_variations
    /\ Len(variations) = max_variations

NoDuplicates(list) == \A i, j \in 1..Len(list) : i # j => list[i] # list[j]

\* C20: no two strings of the returned list are the same, also when the action
\* of the base command is itself one of the fallback variations (agrégame) and
\* when several slots of the base command are missing.
C20_NoDuplicateVariations ==
    GenReturned => NoDuplicates(variations)

-----------------------------------------------------------------------------
(* Repeated calls: a caller keeps a record that extract_medication_info
   returned and compares it with what later calls return for the same text,
   while other extract_medication_info calls and generate_variations calls
   run before and between them. *)

RepeatTexts == {"eliminar ibuprofeno", "Tomar jarabe 5 ml a las 25 pm"}

RepeatCommands == {"agregar paracetamol"}

InterpretRepeat ==
    /\ pc = "idle"
    /\ \E t \in RepeatTexts : Call(t)

GenerateRepeat ==
    /\ gen_pc = "idle"
    /\ \E cmd \in RepeatCommands : GenerateVariations(cmd)

\* The caller takes the record and keeps it, with the text it was returned for.
ReturnKept ==
    /\ pc = "done"
    /\ kept' = [text |-> text, result |-> result]
    /\ pc' = "idle"
    /\ text' = ""
    /\ text_lower' = ""
    /\ info' = NoRecord
    /\ result' = NoRecord
    /\ UNCHANGED <<parser, genvars, svcvars, nlp>>

NextRepeat ==
    \/ InterpretRepeat
    \/ DetectAction
    \/ ExtractMedication
    \/ ExtractDosage
    \/ ExtractFrequency
    \/ ExtractTime
    \/ ExtractQuantity
    \/ ExtractDuration
    \/ CalculateConfidence
    \/ Validate
    \/ Raise
    \/ Return
    \/ ReturnKept
    \/ GenerateRepeat
    \/ ParseBaseCommand
    \/ GetVariations
    \/ TemplateLoop
    \/ GenReturn

SpecRepeat == Init /\ [][NextRepeat]_vars

\* a call for the text of the kept record has returned
ReturnedAgain == Returned /\ kept # NoRecord /\ kept.text = text

\* What the spaCy pipeline contributed to the two records is the same: both
\* calls raised in it or neither did, and the medication, the one slot that
\* can come from its entities, is the same.  Without a spaCy model (nlp is
\* None) nothing is contributed.
SameNlpAnswer ==
    /\ ("error" \in DOMAIN result) = ("error" \in DOMAIN kept.result)
    /\ result.medication = kept.result.medication

\* C18: no call of extract_medication_info or generate_variations changes the
\* common_medications, frequency_map or action_keywords tables of the shared
\* parser, and a call returns the same record as an earlier call for the same
\* text, whichever other calls ran before or between the two (the spaCy
\* pipeline, when one is loaded, answering the same for the same text).
C18_DeterministicAndStateless ==
    /\ parser = MedicationParser
    /\ (ReturnedAgain /\ (nlp => SameNlpAnswer)) => result = kept.result

\* a second call for a text with a medication has returned the kept record,
\* without spaCy, while a generate_variations call has built its list
C18_Witness ==
    /\ ReturnedAgain
    /\ ~nlp
    /\ Completed
    /\ result.medication # None
    /\ result = kept.result
    /\ GenReturned
    /\ variations # EmptyList

-----------------------------------------------------------------------------
(* More properties of generate_variations (SpecGen) *)

\* the loops are about to run over the slices taken
SlicesTaken == gen_pc = "loop"

\* C21: for a base command, the prefixes that a call takes from the time and the
\* frequency variations are the same elements in the same order in every call
\* and every process run: there is only one pair of slices a call can take.
C21_DeterministicOrdering ==
    SlicesTaken =>
        /\ FirstTwoOfSet(time_variations(Get(components, "time"))) = {variation_lists[5]}
        /\ FirstTwoOfSet(freq_variations(Get(components, "frequency"))) = {variation_lists[6]}

\* the list from which the loops take the values of a placeholder
ListOf(placeholder) == variation_lists[PlaceholderNo[placeholder]]

\* C22: when generate_variations returns strings, none of them was formatted
\* with an empty medication or an empty dosage: a base command from which the
\* medication or the dosage cannot be parsed gives no string with that slot blank.
C22_WellFormedVariations ==
    (GenReturned /\ variations # EmptyList) =>
        /\ \A k \in 1..Len(ListOf("{medication}")) : ListOf("{medication}")[k] # ""
        /\ \A k \in 1..Len(ListOf("{dosage}")) : ListOf("{dosage}")[k] # ""

DecomposedSlots == {"action", "medication", "dosage", "time", "frequency", "duration"}

\* C23: a base command in which _parse_base_command finds no action, medication,
\* dosage, time, frequency or duration makes generate_variations return [].
C23_UndecomposableGivesEmptyList ==
    (GenReturned /\ DOMAIN components \cap DecomposedSlots = {}) => variations = EmptyList

\* the take-counts of the slices, in the order of Placeholders
TakeCounts == <<3, 3, 2, 2, 2, 2, 2>>
TemplatesTaken == 3

\* a call is between its first statement and its return
GenRunning == gen_pc \in {"parse", "expand", "loop"}

GenPositions == {"idle", "parse", "expand", "loop", "done"} \X (0..TemplatesTaken)

\* A running call moves on: its position <<gen_pc, template_no>> changes.
\* generate_variations is a synchronous method without I/O or waiting, so a
\* call that has started keeps taking its next statement.  Every step of
\* ParseBaseCommand, GetVariations and TemplateLoop is such a step, and their
\* guards are the position alone, so one of them is enabled whenever a call
\* is running.
GenAdvance ==
    /\ GenRunning
    /\ \E p \in GenPositions :
           /\ p # <<gen_pc, template_no>>
           /\ gen_pc' = p[1]
           /\ template_no' = p[2]

SpecGenFair == SpecGen /\ WF_<<gen_pc, template_no>>(GenAdvance)

\* C24: a call of generate_variations comes to its return; its loops run over
\* slices of at most 3 templates, 3 starters, 3 actions and 2 values of each
\* other slot; and once max_variations strings are in the list, no later pass of
\* any loop appends to it.
C24_TerminatesAndStopsAtCap ==
    /\ [](SlicesTaken =>
            /\ Len(Slice(templates, 3)) <= TemplatesTaken
            /\ template_no <= TemplatesTaken
            /\ \A j \in 1..Len(TakeCounts) : Len(variation_lists[j]) <= TakeCounts[j])
    /\ [][(SlicesTaken /\ CapReached(Len(variations))) => variations' = variations]_vars
    /\ (gen_pc = "parse" ~> GenReturned)

\* the cap is reached and passes of the template loop are still to run
C24_Witness ==
    /\ SlicesTaken
    /\ CapReached(Len(variations))
    /\ template_no < Len(Slice(templates, 3))
    /\ Len(Slice(templates, 3)) * Combinations(variation_lists, 1) > max_variations

-----------------------------------------------------------------------------
(* tts/tts_service.py: TTSService, get_tts_service, text_to_speech *)

Engines == [coqui_loads : BOOLEAN, pyttsx3_loads : BOOLEAN,
            coqui_speaks : BOOLEAN, pyttsx3_speaks : BOOLEAN]

\* TTSService.__init__: CoquiTTS() is tried when the import succeeded, and
\* PyTTSX3TTS() only when that left self.coqui None; a constructor that raises
\* leaves the field None.
TTSService ==
    LET coqui == COQUI_AVAILABLE /\ tts_engines.coqui_loads
    IN  [coqui |-> coqui,
         pyttsx3 |-> ~coqui /\ PYTTSX3_AVAILABLE /\ tts_engines.pyttsx3_loads]

\* CoquiTTS.synthesize: None for a blank text, for an exception and for a file
\* that was not written, else the path of the file
CoquiSynthesize(t) ==
    IF Strip(t) = "" THEN None
    ELSE IF tts_engines.coqui_speaks THEN "audio/output.wav" ELSE None

\* PyTTSX3TTS.synthesize
PyTTSX3Synthesize(t) ==
    IF Strip(t) = "" THEN None
    ELSE IF tts_engines.pyttsx3_speaks THEN "audio/output_fallback.wav" ELSE None

\* The texts handed to text_to_speech.
TtsTexts == {"", " ", "Paracetamol programado", "Tomar 50% de la dosis"}

\* text_to_speech(text): service = get_tts_service(), which builds the service
\* on the first call; then service.synthesize(text).  What the engines will do
\* in this call is the system's.
TextToSpeech(t) ==
    /\ tts_pc = "idle"
    /\ tts_text' = t
    /\ \E speaks \in Engines :
           /\ speaks.coqui_loads = tts_engines.coqui_loads
           /\ speaks.pyttsx3_loads = tts_engines.pyttsx3_loads
           /\ tts_engines' = speaks
    /\ tts_service' = IF tts_service = NoService THEN TTSService ELSE tts_service
    /\ tts_result' = None
    /\ tts_pc' = "synthesize"
    /\ UNCHANGED <<intvars, genvars, poolvars, srvvars, storevars, COQUI_AVAILABLE, PYTTSX3_AVAILABLE>>

Speak ==
    /\ tts_pc = "idle"
    /\ \E t \in TtsTexts : TextToSpeech(t)

\* if not text: return None
Synthesize ==
    /\ tts_pc = "synthesize"
    /\ tts_pc' = IF tts_text = "" THEN "done" ELSE "coqui"
    /\ UNCHANGED <<intvars, genvars, poolvars, srvvars, storevars, COQUI_AVAILABLE, PYTTSX3_AVAILABLE, tts_engines,
                   tts_service, tts_text, tts_result>>

\* if self.coqui: result = self.coqui.synthesize(...); if result: return result
TryCoqui ==
    /\ tts_pc = "coqui"
    /\ IF tts_service.coqui /\ CoquiSynthesize(tts_text) # None
       THEN tts_result' = CoquiSynthesize(tts_text) /\ tts_pc' = "done"
       ELSE tts_result' = tts_result /\ tts_pc' = "pyttsx3"
    /\ UNCHANGED <<intvars, genvars, poolvars, srvvars, storevars, COQUI_AVAILABLE, PYTTSX3_AVAILABLE, tts_engines,
                   tts_service, tts_text>>

\* if self.pyttsx3: result = self.pyttsx3.synthesize(...); if result: return result
\* return None
TryPyTTSX3 ==
    /\ tts_pc = "pyttsx3"
    /\ tts_result' = IF tts_service.pyttsx3 THEN PyTTSX3Synthesize(tts_text) ELSE None
    /\ tts_pc' = "done"
    /\ UNCHANGED <<intvars, genvars, poolvars, srvvars, storevars, COQUI_AVAILABLE, PYTTSX3_AVAILABLE, tts_engines,
                   tts_service, tts_text>>

\* the caller takes the path; the service stays
TtsReturn ==
    /\ tts_pc = "done"
    /\ tts_pc' = "idle"
    /\ tts_text' = ""
    /\ tts_result' = None
    /\ UNCHANGED <<intvars, genvars, poolvars, srvvars, storevars, COQUI_AVAILABLE, PYTTSX3_AVAILABLE, tts_engines,
                   tts_service>>

\* the module imported on any system
InitTTS ==
    /\ parser = MedicationParser
    /\ kept = NoRecord
    /\ GenIdle
    /\ nlp = FALSE
    /\ pc = "idle"
    /\ text = ""
    /\ text_lower = ""
    /\ info = NoRecord
    /\ result = NoRecord
    /\ COQUI_AVAILABLE \in BOOLEAN
    /\ PYTTSX3_AVAILABLE \in BOOLEAN
    /\ \E e \in Engines :
           /\ ~e.coqui_speaks
           /\ ~e.pyttsx3_speaks
           /\ tts_engines = e
    /\ tts_service = NoService
    /\ tts_pc = "idle"
    /\ tts_text = ""
    /\ tts_result = None
    /\ PoolIdle
    /\ SrvIdle
    /\ StoreIdle

NextTTS ==
    \/ Speak
    \/ Synthesize
    \/ TryCoqui
    \/ TryPyTTSX3
    \/ TtsReturn

SpecTTS == InitTTS /\ [][NextTTS]_vars

\* synthesize has tried Coqui for a text that is not empty and got no audio
CoquiFailed ==
    /\ tts_pc = "done"
    /\ tts_text # ""
    /\ tts_service.coqui
    /\ CoquiSynthesize(tts_text) = None

\* pyttsx3 is installed and works: it can be constructed and it produces audio
\* for the text
PyTTSX3Works ==
    /\ PYTTSX3_AVAILABLE
    /\ tts_engines.pyttsx3_loads
    /\ PyTTSX3Synthesize(tts_text) # None

\* C25: when the Coqui synthesis of a non-empty text gives no audio and pyttsx3
\* is available on the system, synthesize returns the audio of pyttsx3, not None.
C25_FallbackToPyTTSX3 ==
    (CoquiFailed /\ PyTTSX3Works) => tts_result = PyTTSX3Synthesize(tts_text)

-----------------------------------------------------------------------------
(* stt/whisper_service.py: WhisperSTTService.load_model, switch_model *)

max_models_in_memory == 2

ValidModels == {"tiny", "base", "small", "medium", "large"}

\* The sizes asked for: the valid ones and one that is not.
RequestedModels == ValidModels \cup {"huge"}

\* model_uses only counts up to MaxUses
MaxUses == 3

Range(seq) == {seq[n] : n \in 1..Len(seq)}

\* if len(self._models_pool) >= self.max_models: del the first key
AfterEviction(pool) ==
    IF Len(pool) >= max_models_in_memory THEN Tail(pool) ELSE pool

\* POST /api/models/switch with data = {"model": model_size}.
\* A size that is not valid raises HTTPException(400) inside the try, which the
\* except turns into a 500.  load_model returns a pooled model as it is; else it
\* evicts, then whisper.load_model either returns the model, which is stored,
\* or raises, which switch_model answers with a 500.
SwitchModel(model_size) ==
    /\ IF model_size \notin ValidModels
       THEN /\ switch_result' = "500"
            /\ UNCHANGED <<models_pool, current_model, default_model, model_uses>>
       ELSE IF model_size \in Range(models_pool)
       THEN /\ model_uses[model_size] < MaxUses
            /\ model_uses' = [model_uses EXCEPT ![model_size] = @ + 1]
            /\ current_model' = model_size
            /\ default_model' = model_size
            /\ switch_result' = "200"
            /\ UNCHANGED models_pool
       ELSE LET pool == AfterEviction(models_pool)
            IN  \/ /\ models_pool' = Append(pool, model_size)
                   /\ model_uses' = [m \in Range(pool) \cup {model_size} |->
                                        IF m = model_size THEN 1 ELSE model_uses[m]]
                   /\ current_model' = model_size
                   /\ default_model' = model_size
                   /\ switch_result' = "200"
                \/ /\ models_pool' = pool
                   /\ model_uses' = [m \in Range(pool) |-> model_uses[m]]
                   /\ switch_result' = "500"
                   /\ UNCHANGED <<current_model, default_model>>
    /\ UNCHANGED <<intvars, genvars, ttsvars, srvvars, storevars>>

Switch == \E model_size \in RequestedModels : SwitchModel(model_size)

InitPool ==
    /\ parser = MedicationParser
    /\ kept = NoRecord
    /\ GenIdle
    /\ nlp = FALSE
    /\ pc = "idle"
    /\ text = ""
    /\ text_lower = ""
    /\ info = NoRecord
    /\ result = NoRecord
    /\ SvcIdle

NextPool == Switch

SpecPool == InitPool /\ [][NextPool]_vars

\* the sizes that a step removes from the pool
Evicted == Range(models_pool) \ Range(models_pool')

\* C26: the pool never holds more than max_models_in_memory models, and a model
\* that a load_model call removes from the pool is one of the least used: no
\* model of the pool had answered fewer load_model calls.
C26_PoolEvictsLeastUsed ==
    /\ [](Len(models_pool) <= max_models_in_memory)
    /\ [][\A m \in Evicted : \A o \in Range(models_pool) : model_uses[m] <= model_uses[o]]_vars

-----------------------------------------------------------------------------
(* Properties of validate_medication_info (SpecConf) *)

\* C27: validate_medication_info returns a record that validating again does
\* not change, and leaves the record it was given as it was.
C27_ValidateIdempotentNoMutation ==
    [][(pc = "validate" /\ pc' = "done") =>
          /\ info' = info
          /\ result' = validate_medication_info(info)
          /\ validate_medication_info(result') = result']_vars

\* the validator has cleared the time and rewritten the dosage of a record
C27_Witness ==
    /\ Completed
    /\ info.time # None
    /\ result.time = None
    /\ info.dosage # None
    /\ result.dosage # info.dosage

-----------------------------------------------------------------------------
(* api/server.py: extract_medication_info_from_text *)

\* any(word in text_lower for word in words)
AnyIn(words, t) == \E n \in 1..Len(words) : In(words[n], t)

SrvDetectAction(t) ==
    IF AnyIn(<<"agregar", "añadir", "poner", "programar">>, t) THEN "add"
    ELSE IF AnyIn(<<"eliminar", "quitar", "borrar", "cancelar">>, t) THEN "delete"
    ELSE IF AnyIn(<<"ver", "listar", "mostrar", "qué", "cuáles">>, t) THEN "list"
    ELSE IF AnyIn(<<"recordar", "recordarme", "avisar">>, t) THEN "remind"
    ELSE IF AnyIn(<<"tomé", "tomar", "tomo">>, t) THEN "check"
    ELSE None

medications ==
    << "paracetamol", "ibuprofeno", "omeprazol", "aspirina", "amoxicilina",
       "loratadina", "metformina", "enalapril", "atorvastatina", "losartan",
       "clonazepam", "diazepam", "sertralina", "citalopram", "warfarin",
       "medicamento", "pastilla", "tableta", "comprimido" >>

SrvMedicationName(t) ==
    LET hits == {n \in 1..Len(medications) : In(medications[n], t)}
    IN  IF hits = {} THEN None ELSE medications[Min(hits)]

\* the alternatives of the first two dosage_patterns; the third pattern only
\* matches where the first does
SrvDosageUnits ==
    << <<"mg", "g", "ml", "mg">>,
       <<"comprimidos", "comprimido", "pastillas", "pastilla", "cápsulas", "cápsula",
         "tabletas", "tableta">> >>

SrvDosageSearch(units, t) ==
    AmountUnitAt(units, t, Leftmost({i \in 1..Len(t) : AmountUnitAt(units, t, i).ok}))

SrvDosage(t) ==
    LET m1 == SrvDosageSearch(SrvDosageUnits[1], t)
        m2 == SrvDosageSearch(SrvDosageUnits[2], t)
    IN  IF m1.ok THEN m1.g1 \o " " \o m1.g2
        ELSE IF m2.ok THEN m2.g1 \o " " \o m2.g2
        ELSE "1 tableta"

SrvFrequency(t) ==
    IF In("cada 8 horas", t) \/ In("cada ocho horas", t) THEN "cada 8 horas"
    ELSE IF In("cada 12 horas", t) THEN "cada 12 horas"
    ELSE IF In("diario", t) \/ In("todos los días", t) \/ In("una vez al día", t) THEN "diario"
    ELSE IF In("semanal", t) \/ In("una vez por semana", t) THEN "semanal"
    ELSE "diario"

SrvTimeColonAt(s, i) ==                \* a las (\d{1,2}):(\d{2})
    LET a == Lit(s, i, "a las ")
        t2 == DigitsN(2, s, Lit(s, DigitsN(2, s, a), ":"))
        t1 == DigitsN(2, s, Lit(s, DigitsN(1, s, a), ":"))
    IN  IF t2 # 0 THEN Match(Span(s, a, a + 2), Span(s, a + 3, a + 5), "")
        ELSE IF t1 # 0 THEN Match(Span(s, a, a + 1), Span(s, a + 2, a + 4), "")
        ELSE NoMatch

\* (\d{1,2})\s*(?:de la\s+)?(alt|alt|...) with n hour digits; without
\* "de la" when optional is FALSE
SrvHourWordTry(s, i, n, optional, alts) ==
    LET b == DigitsN(n, s, i)
        c == Star("s", s, b)
        l == IF optional THEN Plus("s", s, Lit(s, c, "de la")) ELSE 0
        p == IF l # 0 /\ Alt(s, l, alts) # "" THEN l ELSE c
    IN  IF b = 0 \/ Alt(s, p, alts) = "" THEN NoMatch
        ELSE Match(Span(s, i, b), Alt(s, p, alts), "")

SrvHourWordAt(s, i, optional, alts) ==
    IF SrvHourWordTry(s, i, 2, optional, alts).ok THEN SrvHourWordTry(s, i, 2, optional, alts)
    ELSE SrvHourWordTry(s, i, 1, optional, alts)

SrvHourWordSearch(s, optional, alts) ==
    SrvHourWordAt(s, Leftmost({i \in 1..Len(s) : SrvHourWordAt(s, i, optional, alts).ok}),
                  optional, alts)

\* The four time_patterns in turn.  `":" in pattern` is true of the first
\* pattern and also of the second, which holds "(?:", so both give
\* group(1) ":" group(2); the fourth has one group and no period.
SrvTime(t) ==
    LET m1 == SrvTimeColonAt(t, Leftmost({i \in 1..Len(t) : SrvTimeColonAt(t, i).ok}))
        m2 == SrvHourWordSearch(t, TRUE, <<"mañana", "tarde", "noche">>)
        m3 == SrvHourWordSearch(t, FALSE, <<"am", "pm">>)
        m4 == SrvHourWordSearch(t, FALSE, <<"horas">>)
    IN  IF m1.ok THEN m1.g1 \o ":" \o m1.g2
        ELSE IF m2.ok THEN m2.g1 \o ":" \o m2.g2
        ELSE IF m3.ok
             THEN IF m3.g2 = "pm"
                  THEN Dec(IF ToInt(m3.g1) < 12 THEN ToInt(m3.g1) + 12 ELSE ToInt(m3.g1)) \o ":00"
                  ELSE IF m3.g1 = "12" THEN "00:00"
                  ELSE m3.g1 \o ":00"
        ELSE IF m4.ok THEN m4.g1 \o ":00"
        ELSE "08:00"

extract_medication_info_from_text(t) ==
    LET tl == Lower(t)
    IN  [medication_name |-> SrvMedicationName(tl),
         dosage          |-> SrvDosage(tl),
         frequency       |-> SrvFrequency(tl),
         time            |-> SrvTime(tl),
         action          |-> SrvDetectAction(tl),
         quantity        |-> None]

(* VoiceCommandProcessor._detect_command_type *)

detect_command_type(t) ==
    LET tl == Lower(t)
    IN  IF AnyIn(<<"agregar", "añadir", "poner">>, tl) THEN "add_medication"
        ELSE IF AnyIn(<<"eliminar", "quitar">>, tl) THEN "delete_medication"
        ELSE IF AnyIn(<<"listar", "mostrar">>, tl) THEN "list_medications"
        ELSE IF AnyIn(<<"hoy", "qué tengo">>, tl) THEN "check_today"
        ELSE "unknown"

(* VoiceCommandProcessor._calculate_notification_times *)

\* int(s): surrounding blanks and one sign are allowed, then digits only
PyIntBody(s) ==
    IF Ch(Strip(s), 1) \in {"+", "-"} THEN Tail(Strip(s)) ELSE Strip(s)

PyIntOk(s) ==
    /\ PyIntBody(s) # ""
    /\ \A k \in 1..Len(PyIntBody(s)) : IsDigit(Ch(PyIntBody(s), k))

PyInt(s) ==
    IF Ch(Strip(s), 1) = "-" THEN 0 - ToInt(PyIntBody(s)) ELSE ToInt(PyIntBody(s))

\* s.split(":")[0] and s.split(":")[1] of a string that holds ":"
SplitColon(s) ==
    LET c1 == Min({i \in 1..Len(s) : Ch(s, i) = ":"})
        rest == SubSeq(s, c1 + 1, Len(s))
        c2 == Leftmost({i \in 1..Len(rest) : Ch(rest, i) = ":"})
    IN  << SubSeq(s, 1, c1 - 1),
           IF c2 = 0 THEN rest ELSE SubSeq(rest, 1, c2 - 1) >>

FallbackClock == [hour |-> 8, minute |-> 0]

\* the try block: any exception gives 8:00
ParseClock(time_str) ==
    IF In(":", time_str)
    THEN IF PyIntOk(SplitColon(time_str)[1]) /\ PyIntOk(SplitColon(time_str)[2])
         THEN [hour |-> PyInt(SplitColon(time_str)[1]), minute |-> PyInt(SplitColon(time_str)[2])]
         ELSE FallbackClock
    ELSE IF PyIntOk(time_str) THEN [hour |-> PyInt(time_str), minute |-> 0]
    ELSE FallbackClock

\* datetime comparison a > b
Later(a, b) ==
    \/ a.day > b.day
    \/ /\ a.day = b.day
       /\ (a.hour * 60 + a.minute) * 60 + a.second > (b.hour * 60 + b.minute) * 60 + b.second

DaysAhead == 7

\* now.replace(hour, minute, second=0, microsecond=0) + timedelta(days=day)
\* for day in range(7), kept when later than now.  replace() is outside the
\* try block and raises ValueError for an hour outside 0..23 or a minute
\* outside 0..59.
calculate_notification_times(med_info, n) ==
    LET time_str == IF "time" \in DOMAIN med_info THEN med_info.time ELSE "08:00"
        clock == ParseClock(time_str)
        At(day) == [day |-> n.day + day, hour |-> clock.hour, minute |-> clock.minute, second |-> 0]
        first == IF Later(At(0), n) THEN 0 ELSE 1
    IN  IF clock.hour \notin 0..23 \/ clock.minute \notin 0..59
        THEN [raised |-> TRUE, times |-> <<>>]
        ELSE [raised |-> FALSE,
              times |-> [k \in 1..(DaysAhead - first) |-> At(k - 1 + first)]]

\* datetime.now(): a time of day of today
Nows == {[day |-> 0, hour |-> h, minute |-> m, second |-> s] :
            h \in {0, 8, 23}, m \in {0, 30}, s \in {0, 30}}

\* medication_info as the callers pass it: with a "time" string or without
TimeStrings ==
    {"08:00", "8:30", "23:59", "0:00", "8", "24", "25:00", "8:99", "8:mañana",
     "abc", "", " 9 : 05 ", "-1:00", "12:30:15"}
TimeInfos == {[time |-> s] : s \in TimeStrings} \cup {[frequency |-> "diario"]}

CalculateNotificationTimes ==
    /\ srv_pc = "times"
    /\ horas_toma' = calculate_notification_times(medication_info, now)
    /\ srv_pc' = "returned"
    /\ UNCHANGED <<intvars, genvars, ttsvars, poolvars, storevars,
                   transcript, medication_info, command_type, now, srv_response>>

InitTimes ==
    /\ parser = MedicationParser
    /\ kept = NoRecord
    /\ GenIdle
    /\ nlp = FALSE
    /\ pc = "idle"
    /\ text = ""
    /\ text_lower = ""
    /\ info = NoRecord
    /\ result = NoRecord
    /\ TtsIdle /\ PoolIdle /\ StoreIdle
    /\ srv_pc = "times"
    /\ transcript = ""
    /\ medication_info \in TimeInfos
    /\ command_type = None
    /\ now \in Nows
    /\ horas_toma = NoTimes
    /\ srv_response = NoResponse

NextTimes == CalculateNotificationTimes

SpecTimes == InitTimes /\ [][NextTimes]_vars

TimesReturned == srv_pc = "returned"

ClockOf(t) == [hour |-> t.hour, minute |-> t.minute]

\* the time string is missing, unparseable or out of range
TimeUnusable ==
    \/ "time" \notin DOMAIN medication_info
    \/ ParseClock(medication_info.time) = FallbackClock
    \/ ParseClock(medication_info.time).hour \notin 0..23
    \/ ParseClock(medication_info.time).minute \notin 0..59

\* C29: _calculate_notification_times never raises for any time string: a
\* missing, unparseable or out-of-range time falls back to 08:00, and the
\* result is a list of at most 7 timestamps, all strictly later than now,
\* strictly increasing, one per consecutive day at the chosen hour:minute.
C29_NotificationTimesTotal ==
    TimesReturned =>
        LET times == horas_toma.times
        IN  /\ ~horas_toma.raised
            /\ Len(times) <= DaysAhead
            /\ \A k \in 1..Len(times) :
                   /\ Later(times[k], now)
                   /\ ClockOf(times[k]) =
                          IF TimeUnusable THEN FallbackClock
                          ELSE ParseClock(medication_info.time)
            /\ \A k \in 1..(Len(times) - 1) : times[k + 1].day = times[k].day + 1

-----------------------------------------------------------------------------
(* VoiceCommandProcessor.process_and_schedule, one step per statement *)

SrvTranscripts ==
    {"programar paracetamol a las 8:30",
     "agregar ibuprofeno 400 mg cada 8 horas",
     "Agregar 2 pastillas de loratadina a las 20 horas",
     "agregar paracetamol a las 25:00",
     "agregar paracetamol a las 9 de la noche",
     "añadir omeprazol 8 pm",
     "poner aspirina 12 am",
     "agregar una crema",
     "eliminar aspirina",
     "borrar aspirina",
     "listar medicamentos",
     "qué tengo hoy",
     "hola",
     ""}

\* what the Node.js server does with the request: it answers 200 with a
\* count, answers 200 without one, or the request fails
NodeOutcomes == {"counted", "uncounted", "failed"}

ProcessAndSchedule ==
    /\ srv_pc = "idle"
    /\ \E t \in SrvTranscripts : transcript' = t
    /\ \E n \in Nows : now' = n
    /\ srv_pc' = "extract"
    /\ medication_info' = NoRecord
    /\ command_type' = None
    /\ horas_toma' = NoTimes
    /\ srv_response' = NoResponse
    /\ UNCHANGED <<intvars, genvars, ttsvars, poolvars, storevars>>

ExtractInfo ==
    /\ srv_pc = "extract"
    /\ medication_info' = extract_medication_info_from_text(transcript)
    /\ srv_pc' = "detect"
    /\ UNCHANGED <<intvars, genvars, ttsvars, poolvars, storevars,
                   transcript, command_type, now, horas_toma, srv_response>>

DetectCommandType ==
    /\ srv_pc = "detect"
    /\ command_type' = detect_command_type(transcript)
    /\ srv_pc' = "branch"
    /\ UNCHANGED <<intvars, genvars, ttsvars, poolvars, storevars,
                   transcript, medication_info, now, horas_toma, srv_response>>

\* the test of line 100; without a medication to add the command is only
\* acknowledged
NotScheduled ==
    /\ srv_pc = "branch"
    /\ ~(command_type = "add_medication" /\ medication_info.medication_name # None)
    /\ srv_response' = [success |-> TRUE, message |-> "Comando procesado",
                        scheduled |-> FALSE, scheduled_count |-> 0]
    /\ srv_pc' = "done"
    /\ UNCHANGED <<intvars, genvars, ttsvars, poolvars, storevars,
                   transcript, medication_info, command_type, now, horas_toma>>

\* _schedule_notifications_via_node up to the request: the times are
\* calculated outside its try block, so an exception there reaches the
\* handler of process_and_schedule
ScheduleViaNode ==
    /\ srv_pc = "branch"
    /\ command_type = "add_medication"
    /\ medication_info.medication_name # None
    /\ horas_toma' = calculate_notification_times(medication_info, now)
    /\ IF horas_toma'.raised
       THEN /\ srv_response' = [success |-> FALSE, message |-> "",
                                scheduled |-> FALSE, scheduled_count |-> 0]
            /\ srv_pc' = "done"
       ELSE /\ srv_response' = srv_response
            /\ srv_pc' = "post"
    /\ UNCHANGED <<intvars, genvars, ttsvars, poolvars, storevars,
                   transcript, medication_info, command_type, now>>

\* requests.post and the return of lines 107-113 (the message without its
\* leading check-mark sign)
NodeReply ==
    /\ srv_pc = "post"
    /\ \E outcome \in NodeOutcomes :
           srv_response' =
               [success |-> TRUE,
                message |-> medication_info.medication_name \o " programado",
                scheduled |-> outcome # "failed",
                scheduled_count |-> CASE outcome = "counted" -> Len(horas_toma.times)
                                      [] outcome = "uncounted" -> 0
                                      [] outcome = "failed" -> 1]
    /\ srv_pc' = "done"
    /\ UNCHANGED <<intvars, genvars, ttsvars, poolvars, storevars,
                   transcript, medication_info, command_type, now, horas_toma>>

SrvReturn ==
    /\ srv_pc = "done"
    /\ srv_pc' = "idle"
    /\ UNCHANGED <<intvars, genvars, ttsvars, poolvars, storevars,
                   transcript, medication_info, command_type, now, horas_toma,
                   srv_response>>

InitServer ==
    /\ parser = MedicationParser
    /\ kept = NoRecord
    /\ GenIdle
    /\ nlp = FALSE
    /\ pc = "idle"
    /\ text = ""
    /\ text_lower = ""
    /\ info = NoRecord
    /\ result = NoRecord
    /\ SvcIdle

NextServer ==
    \/ ProcessAndSchedule
    \/ ExtractInfo
    \/ DetectCommandType
    \/ NotScheduled
    \/ ScheduleViaNode
    \/ NodeReply
    \/ SrvReturn

SpecServer == InitServer /\ [][NextServer]_vars

BothDetected == srv_pc \in {"branch", "post", "done"}

\* C28: in the API server the two action detectors agree: _detect_command_type
\* answers add_medication exactly when extract_medication_info_from_text sets
\* the action add, and likewise for delete and list, so process_and_schedule
\* schedules notifications for every transcript that the extractor classifies
\* as an add with a medication name.
C28_DetectorsAgree ==
    /\ BothDetected =>
           /\ command_type = "add_medication" <=> medication_info.action = "add"
           /\ command_type = "delete_medication" <=> medication_info.action = "delete"
           /\ command_type = "list_medications" <=> medication_info.action = "list"
    /\ (srv_pc = "done" /\ medication_info.action = "add"
                        /\ medication_info.medication_name # None)
           => srv_response.success /\ srv_response.message # "Comando procesado"

-----------------------------------------------------------------------------
(* api/server.py: the reminder store, reminders.json *)

Users == {"u1", "u2"}

\* datetime.now().timestamp() at a save: the clock readings the model
\* draws from; a later save reads a later clock
MaxStamp == 3

ReminderId(stamp) == "rem_" \o Dec(stamp)

\* the clock reading an id was made from
StampOf(id) == ToInt(SubSeq(id, Len("rem_") + 1, Len(id)))

\* ids that were or were not given out, for the callers of delete
ReminderIds == {ReminderId(stamp) : stamp \in 0..MaxStamp}

\* save_reminder_to_file(reminder) for the reminder set_medication_reminder
\* builds: user_id, active True; the id is assigned here
SaveReminder(user_id, stamp) ==
    /\ \A k \in 1..Len(reminders_file.reminders) :
           StampOf(reminders_file.reminders[k].id) < stamp
    /\ reminders_file' =
           [exists |-> TRUE,
            reminders |-> Append(reminders_file.reminders,
                                 [id |-> ReminderId(stamp), user_id |-> user_id,
                                  active |-> TRUE])]
    /\ store_result' = [call |-> "save", before |-> reminders_file]
    /\ UNCHANGED <<intvars, genvars, ttsvars, poolvars, srvvars, deleted>>

\* the reminder the loop of delete_reminder_from_file stops at, 0 for none
FirstOwned(reminders, reminder_id, user_id) ==
    Leftmost({k \in 1..Len(reminders) :
                 reminders[k].id = reminder_id /\ reminders[k].user_id = user_id})

\* delete_reminder_from_file(reminder_id, user_id); store_result keeps the
\* answer and the file as it was before the call, `deleted` the calls that
\* answered True
DeleteReminder(reminder_id, user_id) ==
    LET k == FirstOwned(reminders_file.reminders, reminder_id, user_id)
        updated == reminders_file.exists /\ k # 0
    IN  /\ reminders_file' =
               IF updated
               THEN [reminders_file EXCEPT !.reminders[k].active = FALSE]
               ELSE reminders_file
        /\ store_result' = [call |-> "delete", id |-> reminder_id, user_id |-> user_id,
                            returned |-> updated, before |-> reminders_file]
        /\ deleted' = IF updated THEN deleted \cup {<<reminder_id, user_id>>} ELSE deleted
        /\ UNCHANGED <<intvars, genvars, ttsvars, poolvars, srvvars>>

\* load_reminders_for_user(user_id)
LoadReminders(user_id) ==
    /\ store_result' =
           [call |-> "load", user_id |-> user_id, before |-> reminders_file,
            returned |-> IF reminders_file.exists
                         THEN SelectSeq(reminders_file.reminders,
                                        LAMBDA r : r.user_id = user_id /\ r.active)
                         ELSE <<>>]
    /\ UNCHANGED <<intvars, genvars, ttsvars, poolvars, srvvars, reminders_file, deleted>>

Save == \E user_id \in Users, stamp \in 1..MaxStamp : SaveReminder(user_id, stamp)
Delete == \E reminder_id \in ReminderIds, user_id \in Users : DeleteReminder(reminder_id, user_id)
Load == \E user_id \in Users : LoadReminders(user_id)

InitStore ==
    /\ parser = MedicationParser
    /\ kept = NoRecord
    /\ GenIdle
    /\ nlp = FALSE
    /\ pc = "idle"
    /\ text = ""
    /\ text_lower = ""
    /\ info = NoRecord
    /\ result = NoRecord
    /\ SvcIdle

NextStore == Save \/ Delete \/ Load

SpecStore == InitStore /\ [][NextStore]_vars

DeleteReturned == store_result.call = "delete"

\* the call named a reminder of the file as it was, with its owner
OwnedBefore(k) ==
    /\ store_result.before.reminders[k].id = store_result.id
    /\ store_result.before.reminders[k].user_id = store_result.user_id

\* C30: reminder store soft-delete: once delete_reminder_from_file(id, u) has
\* returned True no later load_reminders_for_user(u) contains a reminder with
\* that id; a delete with a non-owning user id or an unknown id returns False
\* and leaves the stored list unchanged; and delete returns True only when it
\* deactivated a reminder that was active.
C30_SoftDelete ==
    /\ store_result.call = "load" =>
           \A k \in 1..Len(store_result.returned) :
               <<store_result.returned[k].id, store_result.user_id>> \notin deleted
    /\ (DeleteReturned /\ \A k \in 1..Len(store_result.before.reminders) : ~OwnedBefore(k))
           => ~store_result.returned /\ reminders_file = store_result.before
    /\ (DeleteReturned /\ store_result.returned)
           => \E k \in 1..Len(store_result.before.reminders) :
                  /\ OwnedBefore(k)
                  /\ store_result.before.reminders[k].active
                  /\ ~reminders_file.reminders[k].active

====
